---- MODULE Spec2Model ----
(***************************************************************************)
(* A model of bedframe's authentication negotiation engine                 *)
(* (bedframe.auth): Authenticator.ensure_auth / has_auth, the affordance   *)
(* resolution walk over algorithm phases and connectors, and the HTTP      *)
(* Basic (PlainAuth) and HTTP Digest (DigestAuth) mechanisms with the      *)
(* in-memory supplicants.                                                  *)
(*                                                                         *)
(* Python values are encoded as follows.  None is the string "None".  A    *)
(* spruce uset / usetset is a record [fin, els]: fin = FALSE is the        *)
(* universal set '*', otherwise els holds the elements.  A token-name set  *)
(* is a set of strings, a TokenMap a function from names to strings.  A    *)
(* ProvisionSet is the set of its flag names.  An exception leaving a      *)
(* method is the name of its class.                                        *)
(***************************************************************************)
EXTENDS Integers, Sequences, FiniteSets, TLC

None == "None"

\* ------------------------------------------------------------------------
\* Bounds of the model
\* ------------------------------------------------------------------------

\* server nonces the Digest algorithm may hand out in one behaviour
MaxNonces == 2

\* largest use count a registered server nonce may reach
MaxUseCount == 2

\* sessions the Memcache store may hold in one behaviour
MaxSessions == 2

\* marks a call that needs more nonces, a larger use count or more sessions
\* than the model holds; the operations are not taken in such states
OutOfBounds == "OutOfBounds"

\* ------------------------------------------------------------------------
\* spruce.collections universalizable sets (uset, usetset)
\* ------------------------------------------------------------------------

Universal == [fin |-> FALSE, els |-> {}]

Finite(S) == [fin |-> TRUE, els |-> S]

\* bool(uset): a universal set is non-empty
nonempty(s) == (~s.fin) \/ s.els # {}

\* uset.__and__
uset_and(a, b) ==
    IF ~a.fin THEN b
    ELSE IF ~b.fin THEN a
    ELSE Finite(a.els \cap b.els)

\* x in uset
uset_in(x, s) == (~s.fin) \/ x \in s.els

\* usetset.any_gte(x): some member is a superset of x
any_gte(s, x) == (~s.fin) \/ \E e \in s.els : x \subseteq e

\* usetset.any_lte(x): some member is a subset of x
any_lte(s, x) == (~s.fin) \/ \E e \in s.els : e \subseteq x

\* usetset.all_gte(x): every member is a superset of x
all_gte(s, x) == IF s.fin THEN \A e \in s.els : x \subseteq e ELSE x = {}

\* usetset.union_product(other): the pairwise unions
union_product(a, b) ==
    IF a.fin /\ b.fin
    THEN Finite({x \cup y : x \in a.els, y \in b.els})
    ELSE Universal

\* ------------------------------------------------------------------------
\* Security provisions (auth/_provisions.py)
\* ------------------------------------------------------------------------

SECPROV_CLIENT_AUTH == {"SECPROV_CLIENT_AUTH"}

SECPROV_SERVER_AUTH == {"SECPROV_SERVER_AUTH"}

SECPROV_CLIENT_ENCRYPTED_SECRET == {"SECPROV_CLIENT_ENCRYPTED_SECRET"}

SECPROV_SERVER_NONCE == {"SECPROV_SERVER_NONCE"}

\* implied: SECPROV_SERVER_NONCE and SECPROV_SERVER_NONCE_PER_RESOURCE
SECPROV_SERVER_NONCE_PER_REQUEST ==
    {"SECPROV_SERVER_NONCE_PER_REQUEST", "SECPROV_SERVER_NONCE_PER_RESOURCE"}
    \cup SECPROV_SERVER_NONCE

SECPROV_SERVER_NONCE_USE_COUNT ==
    {"SECPROV_SERVER_NONCE_USE_COUNT"} \cup SECPROV_SERVER_NONCE

SECPROV_CLIENT_NONCE == {"SECPROV_CLIENT_NONCE"}

SECPROV_REQUEST_ENTITY_INTEGRITY == {"SECPROV_REQUEST_ENTITY_INTEGRITY"}

\* the flags in the order of their registration; a flag's bit is its position
FlagOrder ==
    << "SECPROV_CLIENT_AUTH", "SECPROV_SERVER_AUTH",
       "SECPROV_CLIENT_ENCRYPTED_SECRET", "SECPROV_CLIENT_NEVER_SENDS_SECRET",
       "SECPROV_SERVER_NONCE", "SECPROV_SERVER_NONCE_PER_RESOURCE",
       "SECPROV_SERVER_NONCE_PER_REQUEST", "SECPROV_SERVER_NONCE_USE_COUNT",
       "SECPROV_CLIENT_NONCE", "SECPROV_REQUEST_ENTITY_INTEGRITY" >>

RECURSIVE FlagBits(_, _)
FlagBits(provisions, i) ==
    IF i > Len(FlagOrder) THEN 0
    ELSE (IF FlagOrder[i] \in provisions THEN 2 ^ (i - 1) ELSE 0)
         + FlagBits(provisions, i + 1)

\* Authenticator._provisions_score: the integer value of the flag set
_provisions_score(provisions) == FlagBits(provisions, 1)

\* ------------------------------------------------------------------------
\* The configured service: algorithms, connectors, spaces
\* ------------------------------------------------------------------------

Algorithms == {"PlainAuth", "DigestAuth"}

\* A second service, for session-based authentication: its authenticator
\* holds the two session algorithms, the Tornado session clerks and
\* scanners, the supplicant that verifies a login with LDAP and stores the
\* session in Memcache, and the supplicant that recalls a session.  It
\* serves /s, where a Space is registered, and /t, where none is; its
\* session manager has login_uri /login, and its supplicants are
\* constructed with realm example.net and username_key 'user'.
SessionService ==
    [algorithms |-> {"SessionLoginAuth", "SessionRecallAuth"},
     clerks |-> {"TornadoSessionLoginClerk", "TornadoSessionRecallClerk"},
     scanners |-> {"TornadoSessionLoginScanner",
                   "TornadoSessionRecallScanner"},
     supplicants |-> {"LdapSimpleWithMemcacheSessionStorageSupplicant",
                      "MemcacheSessionRecallSupplicant"},
     locs |-> { <<"s">>, <<"t">> }, login_uri |-> "/login"]

\* Algorithm.phase_classes / Algorithm.phases, in order
phases(algorithm) ==
    CASE algorithm = "SessionLoginAuth" ->
            << "SessionLoginAuth.SolicitLogin",
               "SessionLoginAuth.VerifyLoginAndStoreSessionInfo",
               "SessionLoginAuth.SendSessionId" >>
      [] algorithm = "SessionRecallAuth" ->
            << "SessionRecallAuth.SolicitSessionId",
               "SessionRecallAuth.FetchSessionInfo",
               "SessionRecallAuth.VerifySessionInfo" >>
      [] OTHER ->
            << algorithm \o ".SolicitCredsFromClient",
               algorithm \o ".VerifyCredsWithBackend",
               algorithm \o ".VerifyBackendResponse" >>

Phases ==
    {phases(a)[i] : a \in Algorithms \cup SessionService.algorithms,
                    i \in 1..3}

\* AlgorithmPhase.algorithm
algorithm_of(phase) ==
    CHOOSE a \in Algorithms \cup SessionService.algorithms :
        \E i \in 1..3 : phases(a)[i] = phase

\* AlgorithmPhase.index (0-based, as in the source)
index(phase) ==
    (CHOOSE i \in 1..3 : phases(algorithm_of(phase))[i] = phase) - 1

\* AlgorithmPhase.next_phase: phases[index + 1], None on IndexError
next_phase(phase) ==
    IF index(phase) + 1 < Len(phases(algorithm_of(phase)))
    THEN phases(algorithm_of(phase))[index(phase) + 2]
    ELSE None

\* AlgorithmPhase.prev_phase: phases[index - 1]; Python's negative index
\* makes phases[-1] the last phase, so the first phase's prev_phase is the
\* last phase and IndexError never occurs
prev_phase(phase) ==
    LET n == Len(phases(algorithm_of(phase)))
    IN phases(algorithm_of(phase))[((index(phase) - 1 + n) % n) + 1]

Clerks == {"TornadoHttpBasicClerk", "TornadoHttpDigestClerk"}

Scanners == {"TornadoHttpBasicScanner", "TornadoHttpDigestScanner"}

PlainSupplicants == {"InMemoryPlainSupplicant@example.net",
                     "InMemoryPlainSupplicant@other.org"}

GetPasswordSupplicants == {"InMemoryGetPasswordSupplicant@example.net"}

Supplicants == PlainSupplicants \cup GetPasswordSupplicants

Passwords == {"pw1", "pw2"}

\* the users_passwords argument of each supplicant's constructor; for the
\* supplicant that binds to LDAP, the users of the directory
users_passwords(supplicant) ==
    IF supplicant = "InMemoryPlainSupplicant@other.org"
    THEN [u \in {"bob"} |-> "pw2"]
    ELSE [u \in {"alice"} |-> "pw1"]

\* Space(realms, provisionsets, algorithms): the connector sets default '*'
Space(realms_, provisionsets_, algorithms_) ==
    [realms |-> Finite(realms_), provisionsets |-> Finite(provisionsets_),
     algorithms |-> Finite(algorithms_), scanners |-> Universal,
     clerks |-> Universal, supplicants |-> Universal]

SpaceNames ==
    {"BasicSpace", "DigestSpace", "OtherSpace", "PerRequestSpace",
     "SessionSpace", "UnservedSpace"}

space_def(space) ==
    CASE space = "BasicSpace" ->
            Space({"example.net"}, {SECPROV_CLIENT_AUTH}, {"PlainAuth"})
      [] space = "DigestSpace" ->
            Space({"example.net"}, {SECPROV_CLIENT_AUTH}, {"DigestAuth"})
      [] space = "OtherSpace" ->
            Space({"other.org"}, {SECPROV_CLIENT_AUTH}, {"PlainAuth"})
      [] space = "PerRequestSpace" ->
            Space({"example.net"},
                  {SECPROV_CLIENT_AUTH, SECPROV_SERVER_NONCE_PER_REQUEST},
                  {"DigestAuth"})
      [] space = "SessionSpace" ->
            Space({"example.net"}, {SECPROV_CLIENT_AUTH},
                  SessionService.algorithms)
      \* a Space of a realm that no registered supplicant serves
      [] space = "UnservedSpace" ->
            Space({"nowhere.org"}, {SECPROV_CLIENT_AUTH}, {"PlainAuth"})

\* A location is the sequence of its path segments: /a/d is <<"a", "d">>.
\* The SpaceMap of the service, keyed by location pattern.
spaces ==
    ( <<"a">> :> "BasicSpace" ) @@ ( <<"a", "d">> :> "DigestSpace" )
    @@ ( <<"c">> :> "OtherSpace" ) @@ ( <<"p">> :> "PerRequestSpace" )
    @@ ( <<"s">> :> "SessionSpace" ) @@ ( <<"u">> :> "UnservedSpace" )

Locs == { <<"a">>, <<"a", "d">>, <<"c">>, <<"n">>, <<"p">>, <<"u">> }

IsPrefix(p, s) == Len(p) <= Len(s) /\ SubSeq(s, 1, Len(p)) = p

\* HereditaryWebResourcePathMapping.iter_loc_lineage: the keys whose
\* ancestor pattern  key/?(?:(?:/|;|&).+)?$  matches loc
loc_lineage(loc) == {key \in DOMAIN spaces : IsPrefix(key, loc)}

\* HereditaryWebResourcePathMapping._flatten_lineage / __getitem__ / get:
\* the value of the lineage member whose pattern holds the most '/'
spaces_get(loc) ==
    IF loc_lineage(loc) = {} THEN None
    ELSE spaces[CHOOSE key \in loc_lineage(loc) :
                    \A other \in loc_lineage(loc) : Len(other) <= Len(key)]

\* HereditaryWebResourcePathMapping.locs(value)
spaces_locs(space) == {key \in DOMAIN spaces : spaces[key] = space}

\* re.match(spaceloc, loc): the pattern  key/?  matches at the start of loc
re_match(spaceloc, loc) == IsPrefix(spaceloc, loc)

\* ------------------------------------------------------------------------
\* Affordance sets (auth/_affordances)
\* ------------------------------------------------------------------------

\* An affordance set is a record of usets.  A ProcessAffordanceSet leaves
\* scanners, clerks and supplicants universal.

\* ProcessAffordanceSetABC.max / ProcessProspectiveAffordanceSetABC.max
MaxAffordances ==
    [realms |-> Universal, provisionsets |-> Universal,
     algorithms |-> Universal, inputs |-> Universal, outputs |-> Universal,
     scanners |-> Universal, clerks |-> Universal, supplicants |-> Universal]

\* ProcessProspectiveAffordanceSetABC.__nonzero__, with
\* ProcessAffordanceSetABC.__nonzero__ and AffordanceSetABC.__nonzero__ of
\* its general set
prospective_nonzero(a) ==
    nonempty(a.clerks) /\ nonempty(a.scanners) /\ nonempty(a.supplicants)
    /\ nonempty(a.outputs) /\ nonempty(a.inputs)
    /\ nonempty(a.algorithms) /\ nonempty(a.provisionsets)
    /\ nonempty(a.realms)

\* ProcessProspectiveAffordanceSet.from_general
from_general(a, scanners_, clerks_, supplicants_) ==
    [a EXCEPT !.scanners = scanners_, !.clerks = clerks_,
              !.supplicants = supplicants_]

\* ------------------------------------------------------------------------
\* Handlers (auth/_handlers.py) and what each configured handler declares
\* ------------------------------------------------------------------------

TokenHandlers ==
    Phases \cup Clerks \cup Scanners \cup Supplicants
    \cup SessionService.clerks \cup SessionService.scanners
    \cup SessionService.supplicants

AlgorithmHandlers == Phases \cup SpaceNames

RealmHandlers ==
    Supplicants \cup SessionService.supplicants \cup SpaceNames

\* DigestAuth.PROVISIONS_QOP_AUTH_INT
PROVISIONS_QOP_AUTH_INT ==
    SECPROV_CLIENT_AUTH \cup SECPROV_CLIENT_ENCRYPTED_SECRET
    \cup SECPROV_SERVER_NONCE \cup SECPROV_SERVER_NONCE_USE_COUNT
    \cup SECPROV_CLIENT_NONCE \cup SECPROV_REQUEST_ENTITY_INTEGRITY

TOKENS_NO_QOP == {"user", "realm", "server_nonce", "digest_uri", "digest"}

TOKENS_QOP_AUTH_SPECIFIC == {"qop", "server_nonce_use_count", "client_nonce"}

TOKENS_QOP_AUTH == TOKENS_NO_QOP \cup TOKENS_QOP_AUTH_SPECIFIC

TOKENS_QOP_AUTH_INT == TOKENS_QOP_AUTH \cup {"request_entity_hash"}

\* the required tokens with any of _DIGEST_USER_OPTIONAL_TOKENS
_DIGEST_USER_TOKENSETS ==
    {TOKENS_NO_QOP \cup optional_tokens :
        optional_tokens \in SUBSET {"qop", "digest_algorithm", "client_nonce",
                                    "opaque", "server_nonce_use_count"}}

\* TokenHandler.input_source of an algorithm phase
input_source(phase) ==
    CASE index(phase) = 0 -> "start"
      [] index(phase) = 1 -> "scanner"
      [] index(phase) = 2 -> "supplicant"

\* phases whose second hands its output to nothing: it ends the process
output_target_ending_early(phase) ==
    IF phase \in {"PlainAuth.SolicitCredsFromClient",
                  "DigestAuth.SolicitCredsFromClient",
                  "SessionLoginAuth.SolicitLogin",
                  "SessionRecallAuth.SolicitSessionId"}
    THEN "clerk" ELSE "end"

\* TokenHandler.output_target of an algorithm phase
output_target(phase) ==
    CASE index(phase) = 0 -> "clerk"
      [] index(phase) = 1 -> "supplicant"
      [] index(phase) = 2 -> "end"

\* AlgorithmHandler._algorithms
_algorithms(h, up, down) ==
    IF h \in Phases THEN Finite({algorithm_of(h)})
    ELSE space_def(h).algorithms

\* AlgorithmHandler.algorithms
algorithms(h, up, down) ==
    uset_and(uset_and(_algorithms(h, up, down), up.algorithms),
             down.algorithms)

\* RealmHandler._realms
_realms(h, up, down) ==
    \* the realm argument of each supplicant's constructor
    IF h \in Supplicants
    THEN Finite({IF h = "InMemoryPlainSupplicant@other.org"
                 THEN "other.org" ELSE "example.net"})
    \* LdapSimpleWithMemcacheSessionStorageSupplicant._realms: the realm of
    \* the LDAP supplicant, which has no URI scheme to mangle
    ELSE IF h = "LdapSimpleWithMemcacheSessionStorageSupplicant"
    THEN Finite({"example.net"})
    \* MemcacheSessionAuthSupplicant._realms: '*'
    ELSE IF h = "MemcacheSessionRecallSupplicant" THEN Universal
    ELSE space_def(h).realms

\* RealmHandler.realms
realms(h, up, down) ==
    uset_and(uset_and(_realms(h, up, down), up.realms), down.realms)

RECURSIVE provisionsets(_, _, _)
\* ProvisionSetHandler._provisionsets: every configured algorithm and
\* connector declares the single provision set SECPROV_CLIENT_AUTH; a phase
\* asks its algorithm
_provisionsets(h, up, down) ==
    CASE h \in Phases -> provisionsets(algorithm_of(h), up, down)
      [] h \in SpaceNames -> space_def(h).provisionsets
      [] OTHER -> Finite({SECPROV_CLIENT_AUTH})

\* ProvisionSetHandler.provisionsets
\* provisionsets as the intersection of the declared, the upstream and
\* the downstream provision sets
provisionsets_intersected(h, up, down) ==
    uset_and(uset_and(_provisionsets(h, up, down), up.provisionsets),
             down.provisionsets)

provisionsets(h, up, down) ==
    Finite({provisions \in _provisionsets(h, up, down).els :
                any_gte(up.provisionsets, provisions)
                /\ any_gte(down.provisionsets, provisions)})

\* DigestAuth.VerifyCredsWithBackend._affordances_require_qop_auth_int_output
_affordances_require_qop_auth_int_output(up, down) ==
    \/ all_gte(up.provisionsets, PROVISIONS_QOP_AUTH_INT)
    \/ all_gte(down.provisionsets, PROVISIONS_QOP_AUTH_INT)
    \/ all_gte(down.inputs, TOKENS_QOP_AUTH_INT)

\* TokenHandler._inputs
_inputs(h, up, down) ==
    CASE h \in {"PlainAuth.SolicitCredsFromClient",
                "DigestAuth.SolicitCredsFromClient",
                "TornadoHttpBasicClerk", "SessionLoginAuth.SolicitLogin",
                "SessionRecallAuth.SolicitSessionId",
                "TornadoSessionLoginClerk", "TornadoSessionRecallClerk"} ->
            Finite({{}})
      [] h \in {"PlainAuth.VerifyCredsWithBackend",
                "TornadoHttpBasicScanner",
                "SessionLoginAuth.VerifyLoginAndStoreSessionInfo",
                "TornadoSessionLoginScanner",
                "LdapSimpleWithMemcacheSessionStorageSupplicant"}
               \cup PlainSupplicants ->
            Finite({{"user", "password"}})
      [] h \in {"PlainAuth.VerifyBackendResponse",
                "SessionRecallAuth.VerifySessionInfo"} ->
            Finite({{"user", "accepted"}})
      [] h = "SessionLoginAuth.SendSessionId" ->
            Finite({{"user", "accepted", "session_id"}})
      [] h \in {"SessionRecallAuth.FetchSessionInfo",
                "TornadoSessionRecallScanner",
                "MemcacheSessionRecallSupplicant"} ->
            Finite({{"session_id"}})
      [] h = "DigestAuth.VerifyCredsWithBackend" ->
            IF _affordances_require_qop_auth_int_output(up, down)
            THEN Finite({TOKENS_QOP_AUTH_INT})
            ELSE Finite({TOKENS_QOP_AUTH})
      [] h = "DigestAuth.VerifyBackendResponse" ->
            Finite({TOKENS_NO_QOP \cup {"actual_digest"},
                    TOKENS_NO_QOP \cup {"actual_a1"},
                    TOKENS_NO_QOP \cup {"actual_password"},
                    TOKENS_NO_QOP \cup {"qop", "actual_password",
                        "server_nonce_use_count", "client_nonce"},
                    TOKENS_NO_QOP \cup {"qop", "actual_password",
                        "server_nonce_use_count", "client_nonce",
                        "request_entity_hash"}})
      [] h = "TornadoHttpDigestClerk" ->
            Finite({{"realm", "qop", "server_nonce"}})
      [] h = "TornadoHttpDigestScanner" -> Finite(_DIGEST_USER_TOKENSETS)
      [] h \in GetPasswordSupplicants -> Finite({{"user"}})

\* TokenHandler.inputs
inputs(h, up, down) ==
    LET supported(declared) ==
            IF declared.fin
            THEN Finite({input_ \in declared.els :
                            any_gte(up.outputs, input_)})
            ELSE up.outputs
    IN supported(_inputs(h, up, down))

\* TokenHandler._outputs
_outputs(h, up, down) ==
    CASE h \in {"PlainAuth.SolicitCredsFromClient",
                "SessionLoginAuth.SolicitLogin",
                "SessionRecallAuth.SolicitSessionId"} -> Finite({{}})
      [] h \in {"PlainAuth.VerifyCredsWithBackend", "TornadoHttpBasicClerk",
                "TornadoHttpBasicScanner",
                "SessionLoginAuth.VerifyLoginAndStoreSessionInfo",
                "TornadoSessionLoginClerk", "TornadoSessionLoginScanner"} ->
            Finite({{"user", "password"}})
      [] h \in {"PlainAuth.VerifyBackendResponse",
                "SessionRecallAuth.VerifySessionInfo"}
               \cup PlainSupplicants ->
            Finite({{"user", "accepted"}})
      [] h = "SessionLoginAuth.SendSessionId" ->
            Finite({{"user", "accepted", "session_id"}})
      [] h \in {"SessionRecallAuth.FetchSessionInfo",
                "TornadoSessionRecallClerk",
                "TornadoSessionRecallScanner"} -> Finite({{"session_id"}})
      [] h \in SessionService.supplicants ->
            Finite({{"user", "accepted", "session_id", "memcache_server",
                     "memcache_username_key"}})
      [] h = "DigestAuth.SolicitCredsFromClient" ->
            Finite({{"realm", "space_uris", "server_nonce", "qop",
                     "digest_algorithm"}})
      [] h = "DigestAuth.VerifyCredsWithBackend" ->
            IF all_gte(up.outputs, TOKENS_QOP_AUTH)
            THEN Finite({TOKENS_QOP_AUTH_INT})
            ELSE IF any_gte(up.outputs, TOKENS_QOP_AUTH_INT)
            THEN Finite({TOKENS_QOP_AUTH, TOKENS_QOP_AUTH_INT})
            ELSE Finite({TOKENS_QOP_AUTH})
      [] h = "DigestAuth.VerifyBackendResponse" ->
            Finite({input_ \cup {"accepted", "stale"} :
                        input_ \in inputs(h, up, down).els})
      [] h \in {"TornadoHttpDigestClerk", "TornadoHttpDigestScanner"} ->
            Finite(_DIGEST_USER_TOKENSETS)
      [] h \in GetPasswordSupplicants ->
            Finite({{"user", "actual_password"}})

\* TokenHandler.tokens_passthrough: _tokens_passthrough is overridden by
\* AlgorithmPhase and Supplicant
tokens_passthrough(h, up, down) ==
    h \in Phases \cup Supplicants \cup SessionService.supplicants

\* TokenHandler.opaque_passthrough: '__' in upstream.outputs holds of the
\* universal set only, a finite set of token-name sets never holds a string
opaque_passthrough(h, up, down) ==
    IF up.outputs.fin THEN FALSE
    \* _opaque_passthrough is overridden by AlgorithmPhase and Supplicant
    ELSE h \in Phases \cup Supplicants \cup SessionService.supplicants

\* TokenHandler.outputs
outputs(h, up, down) ==
    LET supported(opaque) ==
            IF opaque.fin
            THEN Finite({output \in opaque.els :
                            any_lte(down.inputs, output)})
            ELSE opaque
        with_opaque(passed) ==
            IF opaque_passthrough(h, up, down)
            THEN union_product(passed, Finite({{"__"}}))
            ELSE passed
        with_passed(declared) ==
            IF tokens_passthrough(h, up, down)
            THEN union_product(up.outputs, declared)
            ELSE declared
    IN supported(with_opaque(with_passed(_outputs(h, up, down))))

\* TokenHandler.supports_input
supports_input(h, names, up, down) == any_lte(inputs(h, up, down), names)

\* TokenHandler.supports_output
supports_output(h, names, up, down) == any_gte(outputs(h, up, down), names)

\* TokenHandler.supports_any_input: the members are tried without
\* affordances
supports_any_input(h, inputs_) ==
    /\ nonempty(inputs_)
    /\ \/ ~inputs_.fin
       \/ \E input_ \in inputs_.els :
            supports_input(h, input_, MaxAffordances, MaxAffordances)

\* TokenHandler.supports_any_output
supports_any_output(h, outputs_) ==
    /\ nonempty(outputs_)
    /\ \/ ~outputs_.fin
       \/ \E output \in outputs_.els :
            supports_output(h, output, MaxAffordances, MaxAffordances)

\* AlgorithmHandler.supports_any_algorithm
supports_any_algorithm(h, algorithms_) ==
    /\ nonempty(algorithms_)
    /\ \/ ~algorithms_.fin
       \/ \E algorithm \in algorithms_.els :
            uset_in(algorithm, algorithms(h, MaxAffordances, MaxAffordances))

\* ProvisionSetHandler.supports_any_provisions
supports_any_provisions(h, provisionsets_) ==
    /\ nonempty(provisionsets_)
    /\ \/ ~provisionsets_.fin
       \/ \E provisions \in provisionsets_.els :
            any_gte(provisionsets(h, MaxAffordances, MaxAffordances),
                    provisions)

\* supports_any_realm that enumerates the members of the set it is given
supports_any_realm_enumerating(h, realms_) ==
    \E realm \in realms_.els :
        uset_in(realm, realms(h, MaxAffordances, MaxAffordances))

\* RealmHandler.supports_any_realm
supports_any_realm(h, realms_) ==
    /\ nonempty(realms_)
    /\ \/ ~realms_.fin
       \/ \E realm \in realms_.els :
            uset_in(realm, realms(h, MaxAffordances, MaxAffordances))

\* ParamHandler.supports_affordances along the handler's class hierarchy:
\* every trait of the handler must support both sides
supports_affordances(h, up, down) ==
    /\ h \in TokenHandlers =>
        supports_any_input(h, up.outputs)
        /\ supports_any_output(h, down.inputs)
    /\ h \in AlgorithmHandlers =>
        supports_any_algorithm(h, up.algorithms)
        /\ supports_any_algorithm(h, down.algorithms)
    /\ supports_any_provisions(h, up.provisionsets)
    /\ supports_any_provisions(h, down.provisionsets)
    /\ h \in RealmHandlers =>
        supports_any_realm(h, up.realms) /\ supports_any_realm(h, down.realms)

\* ParamHandler.affordances: each trait of the handler supplies its
\* component, the other components are upstream's and downstream's
affordances(h, up, down) ==
    [realms |-> IF h \in RealmHandlers THEN realms(h, up, down)
                ELSE uset_and(up.realms, down.realms),
     provisionsets |-> provisionsets(h, up, down),
     algorithms |-> IF h \in AlgorithmHandlers THEN algorithms(h, up, down)
                    ELSE uset_and(up.algorithms, down.algorithms),
     inputs |-> IF h \in TokenHandlers THEN inputs(h, up, down)
                ELSE Universal,
     outputs |-> IF h \in TokenHandlers THEN outputs(h, up, down)
                 ELSE Universal,
     scanners |-> Universal, clerks |-> Universal, supplicants |-> Universal]

\* a first-fit next_phase: the first phase that supports the affordances
algorithm_next_phase_first(algorithm, up, down) ==
    LET supporting == {i \in 1..Len(phases(algorithm)) :
                        supports_affordances(phases(algorithm)[i], up, down)}
    IN IF supporting = {} THEN None
       ELSE phases(algorithm)[CHOOSE i \in supporting :
                                \A j \in supporting : i <= j]

\* Algorithm.next_phase: the last phase that supports the affordances
algorithm_next_phase(algorithm, up, down) ==
    LET last(supporting) ==
            IF supporting = {} THEN None
            ELSE phases(algorithm)[CHOOSE i \in supporting :
                                    \A j \in supporting : j <= i]
    IN last({i \in 1..Len(phases(algorithm)) :
                supports_affordances(phases(algorithm)[i], up, down)})

\* ------------------------------------------------------------------------
\* The resolution walk (auth/_authenticators.py)
\* ------------------------------------------------------------------------

\* tokens_combinations: every subset of the token names
tokens_combinations(names) == SUBSET names

\* Authenticator._update_afforded_tokens_from_auth_info
_update_afforded_tokens_from_auth_info(a, tokennames) ==
    [a EXCEPT !.inputs = Finite(tokens_combinations(tokennames)),
              !.outputs = Universal]

\* the connector set of an affordance set that a phase reads from or
\* writes to: getattr(affordances, '{}s'.format(kind))
connectors_of(a, kind) ==
    CASE kind = "scanner" -> a.scanners
      [] kind = "clerk" -> a.clerks
      [] kind = "supplicant" -> a.supplicants

\* setattr(affordances, '{}s'.format(kind), (connector,))
with_connector(a, kind, connector) ==
    CASE kind = "scanner" -> [a EXCEPT !.scanners = Finite({connector})]
      [] kind = "clerk" -> [a EXCEPT !.clerks = Finite({connector})]
      [] kind = "supplicant" ->
            [a EXCEPT !.supplicants = Finite({connector})]

\* ProcessProspectiveAffordanceSet.from_general(handler.affordances(...),
\* scanners=..., clerks=..., supplicants=...) with the connectors of the
\* reverse affordances
resolved_affordances(h, up, down, reverse_affordances) ==
    from_general(affordances(h, up, down), reverse_affordances.scanners,
                 reverse_affordances.clerks, reverse_affordances.supplicants)

RECURSIVE _resolved_phase_input_affordancesets(_, _, _)
RECURSIVE _resolved_phase_output_affordancesets(_, _, _)

\* Authenticator._resolved_phase_input_affordancesets.  Walking upstream a
\* start phase ends the walk; walking downstream no phase is entered from
\* the start.  Upstream, every connector of the phase's source that
\* supports a phase input as its output is resolved and followed to the
\* previous phase; downstream, every output of a connector that the phase
\* supports as input is followed through the phase.
_resolved_phase_input_affordancesets(phase, direction, reverse_affordances) ==
    IF input_source(phase) = "start"
    THEN IF direction = "upstream"
         THEN {resolved_affordances(phase, MaxAffordances,
                                    reverse_affordances, reverse_affordances)}
         ELSE {}
    ELSE IF direction = "upstream"
    THEN UNION {
            UNION {
                {[prev_affordances EXCEPT
                    !.inputs = connector_affordances.outputs,
                    !.outputs = reverse_affordances.inputs] :
                 prev_affordances \in
                    _resolved_phase_output_affordancesets(
                        prev_phase(phase), "upstream",
                        connector_affordances)} :
                connector_affordances \in
                    {resolved \in
                        {with_connector(
                            resolved_affordances(connection[1],
                                MaxAffordances,
                                [phase_affordances EXCEPT
                                    !.inputs = Finite({connection[2]})],
                                reverse_affordances),
                            input_source(phase), connection[1]) :
                         connection \in
                            {c \in connectors_of(reverse_affordances,
                                        input_source(phase)).els
                                    \X phase_affordances.inputs.els :
                                supports_output(c[1], c[2], MaxAffordances,
                                                phase_affordances)}} :
                     prospective_nonzero(resolved)}} :
            phase_affordances \in
                {resolved_affordances(phase, MaxAffordances,
                    reverse_affordances, reverse_affordances)}}
    ELSE UNION {
            UNION {
                _resolved_phase_output_affordancesets(
                    phase, "downstream",
                    [connector_affordances EXCEPT
                        !.outputs = Finite({connector_output})]) :
                connector_output \in
                    {output \in connector_affordances.outputs.els :
                        supports_input(phase, output, connector_affordances,
                                       MaxAffordances)}} :
            connector_affordances \in
                {resolved \in
                    {IF input_source(phase) = "scanner"
                     THEN [resolved_affordances(connector,
                                reverse_affordances, MaxAffordances,
                                reverse_affordances)
                            EXCEPT !.scanners = Finite({connector})]
                     ELSE reverse_affordances :
                     connector \in connectors_of(reverse_affordances,
                                        input_source(phase)).els} :
                 prospective_nonzero(resolved)}}

\* Authenticator._resolved_phase_output_affordancesets.  Walking downstream
\* an end phase ends the walk; walking upstream no phase is left towards
\* the end.  Walking upstream the recursion receives connector_affordances,
\* as in the source, not the narrowed connection_affordances.
_resolved_phase_output_affordancesets(phase, direction, reverse_affordances) ==
    IF direction = "downstream"
    THEN UNION {
            IF output_target(phase) = "end" THEN {phase_affordances}
            ELSE UNION {
                    IF next_phase(phase) # None
                    THEN {[next_affordances EXCEPT
                            !.inputs = reverse_affordances.outputs,
                            !.outputs = connector_affordances.inputs] :
                          next_affordances \in
                            _resolved_phase_input_affordancesets(
                                next_phase(phase), "downstream",
                                connector_affordances)}
                    ELSE {connector_affordances} :
                    connector_affordances \in
                        {resolved \in
                            {with_connector(
                                resolved_affordances(connection[1],
                                    [phase_affordances EXCEPT
                                        !.outputs = Finite({connection[2]})],
                                    MaxAffordances, reverse_affordances),
                                output_target(phase), connection[1]) :
                             connection \in
                                {c \in connectors_of(reverse_affordances,
                                            output_target(phase)).els
                                        \X phase_affordances.outputs.els :
                                    supports_input(c[1], c[2],
                                        phase_affordances, MaxAffordances)}} :
                         prospective_nonzero(resolved)}} :
            phase_affordances \in
                {resolved_affordances(phase, reverse_affordances,
                    MaxAffordances, reverse_affordances)}}
    ELSE IF output_target(phase) = "end" THEN {}
    ELSE UNION {
            _resolved_phase_input_affordancesets(
                phase, "upstream", connector_affordances) :
            connector_affordances \in
                {resolved \in
                    {IF output_target(phase) = "clerk"
                     THEN [resolved_affordances(connector, MaxAffordances,
                                reverse_affordances, reverse_affordances)
                            EXCEPT !.clerks = Finite({connector})]
                     ELSE reverse_affordances :
                     connector \in connectors_of(reverse_affordances,
                                        output_target(phase)).els} :
                 /\ prospective_nonzero(resolved)
                 /\ \E connector_input \in resolved.inputs.els :
                        supports_output(phase, connector_input,
                                        MaxAffordances, resolved)}}

\* Authenticator._resolved_entry_phase_affordancesets
_resolved_entry_phase_affordancesets(phase, a) ==
    UNION {_resolved_phase_output_affordancesets(
                phase, "downstream",
                [upstream_affordances EXCEPT
                    !.inputs = Universal, !.outputs = a.outputs]) :
            upstream_affordances \in
                _resolved_phase_input_affordancesets(
                    phase, "upstream",
                    [a EXCEPT !.inputs = Universal, !.outputs = Universal])}


\* ------------------------------------------------------------------------
\* Tokens and authentication info (auth/_tokens.py, auth/_info.py)
\* ------------------------------------------------------------------------

EmptyTokens == [name \in {} |-> None]

\* tokens[name] = value
tokens_set(tokens, name, value) ==
    [n \in DOMAIN tokens \cup {name} |->
        IF n = name THEN value ELSE tokens[n]]

\* RequestAuthInfo(tokens=..., provisions=..., accepted=...): provisions goes
\* through ProvisionSet(value), which makes None the empty set; accepted is
\* "None", "True" or "False"
RequestAuthInfo(tokens, provisions, accepted) ==
    [tokens |-> tokens, space |-> None, realm |-> None,
     provisions |-> provisions, algorithm |-> None, clerk |-> None,
     scanner |-> None, supplicant |-> None, accepted |-> accepted]

\* verified as the truth value of accepted: a rejection reads as unverified
verified_truthy(auth_info) == auth_info.accepted = "True"

\* RequestAuthInfo.verified
verified(auth_info) == auth_info.accepted # None

\* str(bool)
str(b) == IF b THEN "True" ELSE "False"

\* hashlib.md5(...).hexdigest(), taken to be collision free: the digest of
\* a message is the message under a tag
md5(message) == << "md5", message >>

HexDigits == << "0", "1", "2", "3", "4", "5", "6", "7", "8", "9", "a", "b",
                "c", "d", "e", "f" >>

\* the nc value a client sends for its n-th use of a nonce, n < 16
hex(n) == HexDigits[n + 1]

\* The Authorization header of a request.  scheme "none" is a missing
\* header.  A Basic header carries user and password; a Digest header
\* carries the user, the server nonce and nonce count it answers, and the
\* response digest the client computed from the password it knows.
NoAuthorization ==
    [scheme |-> "none", user |-> None, password |-> None,
     server_nonce |-> None, nc |-> 0]

\* the response digest of RFC 2617 with qop=auth, as a client computes it
client_digest(user, realm, password, server_nonce, nc, client_nonce, method, digest_uri) ==
    md5(<< md5(<< user, realm, password >>), server_nonce, hex(nc),
           client_nonce, "auth", md5(<< method, digest_uri >>) >>)

\* the outcome of one process_tokens call: the exception that left it (None
\* if it returned), the info it returned, and the nonce table and response
\* header it leaves behind
Processed(exc, info, server_nonce_info, www_authenticate) ==
    [exc |-> exc, info |-> info, server_nonce_info |-> server_nonce_info,
     www_authenticate |-> www_authenticate]

\* TornadoHttpBasicScanner._process_tokens,
\* TornadoHttpDigestScanner._process_tokens,
\* TornadoSessionLoginScanner._process_tokens and
\* TornadoSessionRecallScanner._process_tokens on the current request
scanner_process_tokens(scanner, request) ==
    LET authz == request.authorization
    IN CASE scanner = "TornadoSessionLoginScanner"
            /\ {"user", "password"} \subseteq DOMAIN request.webmethod_args ->
                [exc |-> None,
                 info |-> RequestAuthInfo(
                    [name \in {"user", "password"} |->
                        request.webmethod_args[name]],
                    SECPROV_CLIENT_AUTH, None)]
         [] scanner = "TornadoSessionRecallScanner"
            /\ request.cookie # None ->
                [exc |-> None,
                 info |-> RequestAuthInfo(
                    [name \in {"session_id"} |-> request.cookie],
                    SECPROV_CLIENT_AUTH, None)]
         [] scanner = "TornadoHttpBasicScanner" /\ authz.scheme = "Basic" ->
                [exc |-> None,
                 info |-> RequestAuthInfo(
                    [name \in {"user", "password"} |->
                        IF name = "user" THEN authz.user
                        ELSE authz.password],
                    SECPROV_CLIENT_AUTH, None)]
         [] scanner = "TornadoHttpDigestScanner" /\ authz.scheme = "Digest" ->
                [exc |-> None,
                 info |-> RequestAuthInfo(
                    [name \in TOKENS_QOP_AUTH |->
                        CASE name = "user" -> authz.user
                          [] name = "realm" -> "example.net"
                          [] name = "server_nonce" -> authz.server_nonce
                          [] name = "digest_uri" -> request.uri
                          [] name = "digest" ->
                                client_digest(authz.user, "example.net",
                                    authz.password, authz.server_nonce,
                                    authz.nc, "cnonce", request.impl_method,
                                    request.uri)
                          [] name = "qop" -> "auth"
                          [] name = "server_nonce_use_count" -> hex(authz.nc)
                          [] name = "client_nonce" -> "cnonce"],
                    SECPROV_CLIENT_AUTH \cup SECPROV_CLIENT_ENCRYPTED_SECRET
                    \cup SECPROV_SERVER_NONCE
                    \cup SECPROV_SERVER_NONCE_USE_COUNT
                    \cup SECPROV_CLIENT_NONCE,
                    None)]
         [] OTHER ->
                [exc |-> "NoValidTokensScanned",
                 info |-> RequestAuthInfo(EmptyTokens, {}, None)]

\* InMemoryPlainSupplicant._verify_creds / 
\* InMemoryGetPasswordSupplicant._fetch_password: calling with **input needs
\* the named tokens
supplicant_process_tokens(supplicant, input) ==
    IF supplicant \in PlainSupplicants
    THEN IF {"user", "password"} \subseteq DOMAIN input
         THEN [exc |-> None,
               info |-> RequestAuthInfo(
                    [name \in DOMAIN input \ {"password"} |-> input[name]],
                    SECPROV_CLIENT_AUTH,
                    str(input["user"] \in DOMAIN users_passwords(supplicant)
                        /\ input["password"]
                            = users_passwords(supplicant)[input["user"]]))]
         ELSE [exc |-> "TypeError",
               info |-> RequestAuthInfo(EmptyTokens, {}, None)]
    ELSE IF "user" \in DOMAIN input
         THEN [exc |-> None,
               info |-> RequestAuthInfo(
                    tokens_set(input, "actual_password",
                        IF input["user"] \in DOMAIN users_passwords(supplicant)
                        THEN users_passwords(supplicant)[input["user"]]
                        ELSE None),
                    SECPROV_CLIENT_AUTH, None)]
         ELSE [exc |-> "TypeError",
               info |-> RequestAuthInfo(EmptyTokens, {}, None)]

\* PlainAuth's phases' _process_tokens
plain_process_tokens(phase, input) ==
    IF index(phase) < 2
    THEN [exc |-> None,
          info |-> RequestAuthInfo(input, SECPROV_CLIENT_AUTH, None)]
    ELSE IF "accepted" \in DOMAIN input
         THEN [exc |-> None,
               info |-> RequestAuthInfo(input, SECPROV_CLIENT_AUTH,
                                        str(input["accepted"] = "True"))]
         ELSE [exc |-> "KeyError",
               info |-> RequestAuthInfo(EmptyTokens, {}, None)]

\* ------------------------------------------------------------------------
\* Session authentication (auth/session, auth/ldap, auth/memcache,
\* auth/ldap_memcache)
\* ------------------------------------------------------------------------

\* SessionLoginAuth's and SessionRecallAuth's phases' _process_tokens
session_process_tokens(phase, input) ==
    IF index(phase) < 2
    THEN [exc |-> None,
          info |-> RequestAuthInfo(input, SECPROV_CLIENT_AUTH, None)]
    ELSE IF "accepted" \in DOMAIN input
         THEN [exc |-> None,
               info |-> RequestAuthInfo(input, SECPROV_CLIENT_AUTH,
                                        str(input["accepted"] = "True"))]
         ELSE [exc |-> "KeyError",
               info |-> RequestAuthInfo(EmptyTokens, {}, None)]

\* LdapSimpleSupplicant._verify_creds on the normalized input, for a
\* supplicant constructed with its server, basedn and username_attr: the
\* simple bind succeeds for the users of the directory with their
\* passwords.  The server is taken to answer.
_verify_creds(supplicant, input) ==
    LET accepted == /\ input["user"] \in DOMAIN users_passwords(supplicant)
                    /\ input["password"]
                            = users_passwords(supplicant)[input["user"]]
        names == DOMAIN input
                 \cup {"user", "accepted", "password", "ldap_server",
                       "ldap_basedn", "ldap_username_attr", "ldap_user_dn"}
    IN IF {"user", "password"} \subseteq DOMAIN input
       THEN [exc |-> None,
             info |-> RequestAuthInfo(
                [name \in names |->
                    CASE name = "accepted" ->
                            IF accepted THEN "true" ELSE "false"
                      [] name = "ldap_server" -> "ldap.example.net"
                      [] name = "ldap_basedn" -> "ou=users"
                      [] name = "ldap_username_attr" -> "uid"
                      [] name = "ldap_user_dn" ->
                            "uid=" \o input["user"] \o ",ou=users"
                      [] OTHER -> input[name]],
                SECPROV_CLIENT_AUTH, str(accepted))]
       ELSE [exc |-> "TypeError",
             info |-> RequestAuthInfo(EmptyTokens, {}, None)]

\* uuid4().hex: the session ids, in the order in which logins produce them
SessionIds == {"sid" \o ToString(n) : n \in 1..MaxSessions}

\* a storage that writes a session whatever the value of accepted
storage_fetch_session_info_of_any(tokens, accepted, cache) ==
    LET session_id == "sid" \o ToString(Cardinality(DOMAIN cache) + 1)
        names == DOMAIN tokens
                 \cup {"user", "accepted", "memcache_server",
                       "memcache_username_key"}
                 \cup {"session_id"}
    IN IF ~({"user", "accepted"} \subseteq DOMAIN tokens)
       THEN [exc |-> "TypeError",
             info |-> RequestAuthInfo(EmptyTokens, {}, None),
             server_nonce_info |-> cache]
       ELSE IF Cardinality(DOMAIN cache) >= MaxSessions
       THEN [exc |-> OutOfBounds,
             info |-> RequestAuthInfo(EmptyTokens, {}, None),
             server_nonce_info |-> cache]
       ELSE [exc |-> None,
             info |-> RequestAuthInfo(
                [name \in names |->
                    CASE name = "accepted" ->
                            IF accepted THEN "true" ELSE "false"
                      [] name = "session_id" -> session_id
                      [] name = "memcache_server" -> "memcache.example.net"
                      [] name = "memcache_username_key" -> "user"
                      [] OTHER -> tokens[name]],
                SECPROV_CLIENT_AUTH, str(accepted)),
             server_nonce_info |->
                IF TRUE
                THEN [id \in DOMAIN cache \cup {session_id} |->
                        IF id = session_id
                        THEN [user |-> tokens["user"], accepted |-> "True"]
                        ELSE cache[id]]
                ELSE cache]

\* MemcacheSessionStorageSupplicant._fetch_session_info, called with the
\* tokens as keyword arguments and accepted a Python bool: cache maps the
\* session ids stored to their session info.  An id that was deleted keeps
\* its place with a session info of None, so that no later uuid4() repeats
\* it.
storage_fetch_session_info(tokens, accepted, cache) ==
    LET session_id == "sid" \o ToString(Cardinality(DOMAIN cache) + 1)
        names == DOMAIN tokens
                 \cup {"user", "accepted", "memcache_server",
                       "memcache_username_key"}
                 \cup (IF accepted THEN {"session_id"} ELSE {})
    IN IF ~({"user", "accepted"} \subseteq DOMAIN tokens)
       THEN [exc |-> "TypeError",
             info |-> RequestAuthInfo(EmptyTokens, {}, None),
             server_nonce_info |-> cache]
       ELSE IF accepted /\ Cardinality(DOMAIN cache) >= MaxSessions
       THEN [exc |-> OutOfBounds,
             info |-> RequestAuthInfo(EmptyTokens, {}, None),
             server_nonce_info |-> cache]
       ELSE [exc |-> None,
             info |-> RequestAuthInfo(
                [name \in names |->
                    CASE name = "accepted" ->
                            IF accepted THEN "true" ELSE "false"
                      [] name = "session_id" -> session_id
                      [] name = "memcache_server" -> "memcache.example.net"
                      [] name = "memcache_username_key" -> "user"
                      [] OTHER -> tokens[name]],
                SECPROV_CLIENT_AUTH, str(accepted)),
             server_nonce_info |->
                IF accepted
                THEN [id \in DOMAIN cache \cup {session_id} |->
                        IF id = session_id
                        THEN [user |-> tokens["user"], accepted |-> "True"]
                        ELSE cache[id]]
                ELSE cache]

\* a recall that finds no session info, whatever the store holds
recall_fetch_session_info_missing(tokens, cache) ==
    [exc |-> None,
     info |-> RequestAuthInfo(
        [name \in DOMAIN tokens
                  \cup {"memcache_server", "memcache_username_key"} |->
            CASE name = "memcache_server" -> "memcache.example.net"
              [] name = "memcache_username_key" -> "user"
              [] OTHER -> tokens[name]],
        SECPROV_CLIENT_AUTH, "False"),
     server_nonce_info |-> cache]

\* MemcacheSessionRecallSupplicant._fetch_session_info, called with the
\* tokens as keyword arguments.  A stored value that json.loads cannot
\* load is held in the store as a session info accepted "unloadable".
recall_fetch_session_info(tokens, cache) ==
    LET found == /\ tokens["session_id"] \in DOMAIN cache
                 /\ cache[tokens["session_id"]].accepted # None
        names == DOMAIN tokens
                 \cup {"session_id", "memcache_server",
                       "memcache_username_key"}
                 \cup (IF found THEN {"user", "accepted"} ELSE {})
    IN IF "session_id" \notin DOMAIN tokens
       THEN [exc |-> "TypeError",
             info |-> RequestAuthInfo(EmptyTokens, {}, None),
             server_nonce_info |-> cache]
       ELSE IF found /\ cache[tokens["session_id"]].accepted = "unloadable"
       THEN [exc |-> "RuntimeError",
             info |-> RequestAuthInfo(EmptyTokens, {}, None),
             server_nonce_info |-> cache]
       ELSE [exc |-> None,
             info |-> RequestAuthInfo(
                [name \in names |->
                    CASE name = "user" /\ found ->
                            cache[tokens["session_id"]].user
                      [] name = "accepted" /\ found ->
                            cache[tokens["session_id"]].accepted
                      [] name = "memcache_server" -> "memcache.example.net"
                      [] name = "memcache_username_key" -> "user"
                      [] OTHER -> tokens[name]],
                SECPROV_CLIENT_AUTH,
                IF found THEN cache[tokens["session_id"]].accepted
                ELSE "False"),
             server_nonce_info |-> cache]

\* LdapSimpleWithMemcacheSessionStorageSupplicant._process_tokens and
\* MemcacheSessionAuthSupplicant._process_tokens: cache is the Memcache
\* store, which takes the place of the nonce table in the session service
session_supplicant_process_tokens(supplicant, input, cache) ==
    LET storing(verified_creds) ==
            IF verified_creds.exc # None
            THEN [exc |-> verified_creds.exc, info |-> verified_creds.info,
                  server_nonce_info |-> cache]
            ELSE storage_fetch_session_info(
                    verified_creds.info.tokens,
                    verified_creds.info.accepted = "True", cache)
    IN IF supplicant = "MemcacheSessionRecallSupplicant"
       THEN recall_fetch_session_info(input, cache)
       ELSE storing(_verify_creds(supplicant, input))

\* ------------------------------------------------------------------------
\* DigestAuth (auth/digest/_algorithms.py)
\* ------------------------------------------------------------------------

\* The server nonces, in the order in which new_server_nonce produces them.
\* A nonce is the encoding of the request time and of a digest of fresh
\* state; the model takes every new nonce to differ from the earlier ones.
RECURSIVE NonceSeq(_)
NonceSeq(n) ==
    IF n = 0 THEN << >> ELSE Append(NonceSeq(n - 1), "nonce" \o ToString(n))

\* a nonce function that returns the nonce without entering it in the table
new_server_nonce_unregistered(server_nonce_info) ==
    IF Cardinality(DOMAIN server_nonce_info) < MaxNonces
    THEN [exc |-> None,
          nonce |-> NonceSeq(MaxNonces)[Cardinality(DOMAIN server_nonce_info)
                                        + 1],
          server_nonce_info |-> server_nonce_info]
    ELSE [exc |-> OutOfBounds, nonce |-> None,
          server_nonce_info |-> server_nonce_info]

\* DigestAuth._default_new_server_nonce_func: the nonce is registered with
\* use_count 0.  Of ServerNonceInfo the model keeps use_count; value is the
\* key, and loc, etag and timestamp are read by no code that runs.
new_server_nonce(server_nonce_info) ==
    LET issued == Cardinality(DOMAIN server_nonce_info)
    IN IF issued < MaxNonces
       THEN [exc |-> None, nonce |-> NonceSeq(MaxNonces)[issued + 1],
             server_nonce_info |->
                [n \in DOMAIN server_nonce_info
                        \cup {NonceSeq(MaxNonces)[issued + 1]} |->
                    IF n \in DOMAIN server_nonce_info
                    THEN server_nonce_info[n] ELSE [use_count |-> 0]]]
       ELSE [exc |-> OutOfBounds, nonce |-> None,
             server_nonce_info |-> server_nonce_info]

\* iter(uset).next() on a finite set; the sets reaching it hold one element
next_of(s) == CHOOSE x \in s.els : TRUE

RECURSIVE loc_path(_)
\* the path of a location, /a/d for <<"a", "d">>
loc_path(loc) ==
    IF loc = << >> THEN ""
    ELSE loc_path(SubSeq(loc, 1, Len(loc) - 1)) \o "/" \o loc[Len(loc)]

\* percent_encode(loc.pattern): the pattern of a key is its path followed
\* by /?
percent_encoded_pattern(key) == loc_path(key) \o "/%3F"

RECURSIVE join_patterns(_)
\* ' '.join(percent_encode(loc.pattern) for loc in space_locs)
join_patterns(keys) ==
    IF keys = {} THEN ""
    ELSE LET key == CHOOSE k \in keys : TRUE
         IN IF keys = {key} THEN percent_encoded_pattern(key)
            ELSE percent_encoded_pattern(key) \o " "
                 \o join_patterns(keys \ {key})

\* DigestAuth._challenge_tokens.  request.auth_space is
\* service.auth_spaces[request.loc], a KeyError when no space covers the
\* location of the current request.
_challenge_tokens(tokens, a, request, server_nonce_info) ==
    LET \* the value the method sets where the tokens it got lack the name
        default(name) ==
            CASE name = "realm" -> next_of(a.realms)
              [] name = "space_uris" ->
                    join_patterns(spaces_locs(spaces_get(request.loc)))
              [] name = "qop" ->
                    IF all_gte(a.provisionsets, PROVISIONS_QOP_AUTH_INT)
                    THEN "auth-int"
                    ELSE IF any_gte(a.provisionsets, PROVISIONS_QOP_AUTH_INT)
                    THEN "auth, auth-int"
                    ELSE "auth"
              [] name = "digest_algorithm" -> "MD5"
        challenge(issued) ==
            IF issued.exc # None
            THEN [exc |-> issued.exc, tokens |-> tokens,
                  server_nonce_info |-> server_nonce_info]
            ELSE [exc |-> None,
                  tokens |->
                    [name \in DOMAIN tokens
                              \cup {"realm", "space_uris", "server_nonce",
                                    "qop", "digest_algorithm"} |->
                        IF name = "server_nonce" THEN issued.nonce
                        ELSE IF name \in DOMAIN tokens THEN tokens[name]
                        ELSE default(name)],
                  server_nonce_info |-> issued.server_nonce_info]
    IN IF "space_uris" \notin DOMAIN tokens
          /\ spaces_get(request.loc) = None
       THEN [exc |-> "KeyError", tokens |-> tokens,
             server_nonce_info |-> server_nonce_info]
       ELSE challenge(new_server_nonce(server_nonce_info))

\* DigestAuth.SolicitCredsFromClient._process_tokens
digest_solicit_process_tokens(input, a, request, server_nonce_info) ==
    LET solicited(challenge) ==
            [exc |-> challenge.exc,
             info |-> RequestAuthInfo(challenge.tokens, {}, None),
             server_nonce_info |-> challenge.server_nonce_info]
    IN solicited(_challenge_tokens(input, a, request, server_nonce_info))

\* DigestAuth.VerifyCredsWithBackend._process_tokens for the qop values a
\* request of the model carries: "auth", or no qop at all.  Without qop the
\* source calls _affordances_require_qop_auth_output with one of its two
\* required arguments, a TypeError.
digest_verify_creds_process_tokens(input, a) ==
    LET tokens == tokens_set(input, "realm", next_of(a.realms))
        failed(exc) == [exc |-> exc,
                        info |-> RequestAuthInfo(EmptyTokens, {}, None)]
    IN IF ~(TOKENS_NO_QOP \subseteq DOMAIN input)
       THEN failed("MissingTokens")
       ELSE IF "qop" \in DOMAIN tokens
       THEN IF tokens["qop"] # "auth" THEN failed("ValueError")
            ELSE IF ~(TOKENS_QOP_AUTH_SPECIFIC \subseteq DOMAIN tokens)
            THEN failed("MissingTokens")
            ELSE IF all_gte(a.provisionsets, PROVISIONS_QOP_AUTH_INT)
            THEN failed("ValueError")
            ELSE [exc |-> None, info |-> RequestAuthInfo(tokens, {}, None)]
       ELSE failed("TypeError")

\* a verification that writes the count of a snapshot of the nonce's entry
\* taken when the nonce was registered
digest_verify_response_process_tokens_snapshot(input, a, request, server_nonce_info) ==
    LET raised(exc, table_) ==
            [exc |-> exc, info |-> RequestAuthInfo(EmptyTokens, {}, None),
             server_nonce_info |-> table_]
        failed(exc) == raised(exc, server_nonce_info)
        server_nonce == input["server_nonce"]
        known == server_nonce \in DOMAIN server_nonce_info
        server_nonce_stale == ~known
        actual_a1 == << input["user"], input["realm"],
                        input["actual_password"] >>
        actual_a2 == << request.impl_method, input["digest_uri"] >>
        \* spruce.lang.hex_int of a one-digit numeral
        server_nonce_use_count ==
            (CHOOSE i \in 1..16 :
                HexDigits[i] = input["server_nonce_use_count"]) - 1
        provisions ==
            SECPROV_CLIENT_AUTH \cup SECPROV_CLIENT_ENCRYPTED_SECRET
            \cup SECPROV_SERVER_NONCE \cup SECPROV_SERVER_NONCE_USE_COUNT
            \cup SECPROV_CLIENT_NONCE
        actual_digest ==
            md5(<< md5(actual_a1), server_nonce,
                   input["server_nonce_use_count"], input["client_nonce"],
                   input["qop"], md5(actual_a2) >>)
        matches == input["digest"] = actual_digest
        accepted == matches /\ ~server_nonce_stale
        issued == new_server_nonce(server_nonce_info)
        counted ==
            [server_nonce_info EXCEPT
                ![server_nonce] =
                    [use_count |-> 1]]
        table == IF server_nonce_stale THEN issued.server_nonce_info
                 ELSE counted
        challenging(challenge) ==
            IF challenge.exc # None
            THEN raised(challenge.exc, table)
            ELSE [exc |-> None,
                  info |-> RequestAuthInfo(challenge.tokens, provisions,
                                           "False"),
                  server_nonce_info |-> challenge.server_nonce_info]
    IN IF ~(TOKENS_NO_QOP \subseteq DOMAIN input)
       THEN failed("MissingTokens")
       ELSE IF "actual_password" \notin DOMAIN input
       THEN failed("KeyError")
       ELSE IF input["actual_password"] = None
       THEN [exc |-> None, info |-> RequestAuthInfo(input, {}, "False"),
             server_nonce_info |-> server_nonce_info]
       ELSE IF "qop" \notin DOMAIN input \/ input["qop"] # "auth"
               \/ ~(TOKENS_QOP_AUTH_SPECIFIC \subseteq DOMAIN input)
       THEN failed("ValueError")
       ELSE IF known /\ server_nonce_use_count
                            < server_nonce_info[server_nonce].use_count
       THEN failed("AttributeError")
       ELSE IF server_nonce_stale /\ issued.exc # None
       THEN failed(issued.exc)
       ELSE IF ~server_nonce_stale
               /\ server_nonce_info[server_nonce].use_count >= MaxUseCount
       THEN failed(OutOfBounds)
       ELSE IF accepted
       THEN [exc |-> None,
             info |-> RequestAuthInfo(input, provisions, "True"),
             server_nonce_info |-> table]
       ELSE challenging(_challenge_tokens(input, a, request, table))

\* DigestAuth.VerifyBackendResponse._process_tokens for tokens that carry
\* actual_password (the supplicant of the model fetches passwords), the
\* default digest algorithm MD5 and qop "auth".  reuse_server_nonce returns
\* a generator object, which is true, so a registered nonce is never stale.
\* The replay check raises _exc.AttackDetected, a name the module
\* bedframe.auth._exc does not define: an AttributeError.
digest_verify_response_process_tokens(input, a, request, server_nonce_info) ==
    LET raised(exc, table_) ==
            [exc |-> exc, info |-> RequestAuthInfo(EmptyTokens, {}, None),
             server_nonce_info |-> table_]
        failed(exc) == raised(exc, server_nonce_info)
        server_nonce == input["server_nonce"]
        known == server_nonce \in DOMAIN server_nonce_info
        server_nonce_stale == ~known
        actual_a1 == << input["user"], input["realm"],
                        input["actual_password"] >>
        actual_a2 == << request.impl_method, input["digest_uri"] >>
        \* spruce.lang.hex_int of a one-digit numeral
        server_nonce_use_count ==
            (CHOOSE i \in 1..16 :
                HexDigits[i] = input["server_nonce_use_count"]) - 1
        provisions ==
            SECPROV_CLIENT_AUTH \cup SECPROV_CLIENT_ENCRYPTED_SECRET
            \cup SECPROV_SERVER_NONCE \cup SECPROV_SERVER_NONCE_USE_COUNT
            \cup SECPROV_CLIENT_NONCE
        actual_digest ==
            md5(<< md5(actual_a1), server_nonce,
                   input["server_nonce_use_count"], input["client_nonce"],
                   input["qop"], md5(actual_a2) >>)
        matches == input["digest"] = actual_digest
        accepted == matches /\ ~server_nonce_stale
        issued == new_server_nonce(server_nonce_info)
        counted ==
            [server_nonce_info EXCEPT
                ![server_nonce] =
                    [use_count |-> server_nonce_info[server_nonce].use_count
                                   + 1]]
        table == IF server_nonce_stale THEN issued.server_nonce_info
                 ELSE counted
        challenging(challenge) ==
            IF challenge.exc # None
            THEN raised(challenge.exc, table)
            ELSE [exc |-> None,
                  info |-> RequestAuthInfo(challenge.tokens, provisions,
                                           "False"),
                  server_nonce_info |-> challenge.server_nonce_info]
    IN IF ~(TOKENS_NO_QOP \subseteq DOMAIN input)
       THEN failed("MissingTokens")
       ELSE IF "actual_password" \notin DOMAIN input
       THEN failed("KeyError")
       ELSE IF input["actual_password"] = None
       THEN [exc |-> None, info |-> RequestAuthInfo(input, {}, "False"),
             server_nonce_info |-> server_nonce_info]
       ELSE IF "qop" \notin DOMAIN input \/ input["qop"] # "auth"
               \/ ~(TOKENS_QOP_AUTH_SPECIFIC \subseteq DOMAIN input)
       THEN failed("ValueError")
       ELSE IF known /\ server_nonce_use_count
                            < server_nonce_info[server_nonce].use_count
       THEN failed("AttributeError")
       ELSE IF server_nonce_stale /\ issued.exc # None
       THEN failed(issued.exc)
       ELSE IF ~server_nonce_stale
               /\ server_nonce_info[server_nonce].use_count >= MaxUseCount
       THEN failed(OutOfBounds)
       ELSE IF accepted
       THEN [exc |-> None,
             info |-> RequestAuthInfo(input, provisions, "True"),
             server_nonce_info |-> table]
       ELSE challenging(_challenge_tokens(input, a, request, table))

\* ------------------------------------------------------------------------
\* Clerks (auth/http, auth/tornado)
\* ------------------------------------------------------------------------

\* a challenge whose realm is not a quoted string
challenge_header_value_unquoted(clerk, realm, input) ==
    IF clerk = "TornadoHttpBasicClerk"
    THEN "Basic realm=" \o realm
    ELSE "Digest realm=" \o realm

\* HttpBasicClerk._append_response_auth_challenge and
\* HttpDigestClerk._append_response_auth_challenge: the value handed to
\* set_header('WWW-Authenticate', value)
challenge_header_value(clerk, realm, input) ==
    IF clerk = "TornadoHttpBasicClerk"
    THEN "Basic realm=\"" \o realm \o "\""
    ELSE LET field(tokenname, directivename) ==
                IF tokenname \in DOMAIN input
                THEN << directivename \o "=\"" \o input[tokenname] \o "\"" >>
                ELSE << >>
             auth_subfields ==
                field("realm", "realm") \o field("space_uris", "domain")
                \o field("server_nonce", "nonce") \o field("stale", "stale")
                \o field("digest_algorithm", "algorithm")
                \o field("qop", "qop")
             joined[i \in 0..Len(auth_subfields)] ==
                IF i = 0 THEN ""
                ELSE IF i = 1 THEN auth_subfields[1]
                ELSE joined[i - 1] \o ", " \o auth_subfields[i]
         IN "Digest " \o joined[Len(auth_subfields)]

\* the realms a standard HTTP clerk challenges for
challenge_realms(realms_, needs_nonempty) ==
    IF realms_.fin /\ (realms_.els # {} \/ ~needs_nonempty)
    THEN realms_.els ELSE {""}

\* The WWW-Authenticate header after a clerk has appended one challenge per
\* realm: set_header replaces the header, so the last challenge stays.  The
\* header is unchanged when there is no realm to challenge for.
challenged(clerk, realms_, input, www_authenticate) ==
    IF realms_ = {} THEN www_authenticate
    ELSE challenge_header_value(clerk, CHOOSE realm \in realms_ : TRUE, input)

\* HttpStandardClerk._process_tokens: challenge, then AuthTokensNotGiven
clerk_process_tokens(clerk, input, a, www_authenticate) ==
    Processed("AuthTokensNotGiven", RequestAuthInfo(EmptyTokens, {}, None),
              << >>,
              challenged(clerk, challenge_realms(a.realms, TRUE), input,
                         www_authenticate))

\* ------------------------------------------------------------------------
\* Processing (Authenticator._process_phase)
\* ------------------------------------------------------------------------

\* TokenHandler.process_tokens of a phase, clerk or supplicant: the
\* connector's _process_tokens, then tokens['accepted'] = str(accepted) on
\* a verified result
process_tokens(connector, input, a, request, server_nonce_info, www_authenticate) ==
    LET unchanged(r) ==
            Processed(r.exc, r.info, server_nonce_info, www_authenticate)
        registering(r) ==
            Processed(r.exc, r.info, r.server_nonce_info, www_authenticate)
        \* tokens['accepted'] = str(accepted) on a verified result
        marked(processed) ==
            IF processed.exc = None /\ verified(processed.info)
            THEN [processed EXCEPT
                    !.info.tokens = tokens_set(@, "accepted",
                                               processed.info.accepted)]
            ELSE processed
    IN marked(
            CASE connector \in Clerks ->
                    [clerk_process_tokens(connector, input, a,
                                          www_authenticate)
                        EXCEPT !.server_nonce_info = server_nonce_info]
              [] connector \in Supplicants ->
                    unchanged(supplicant_process_tokens(connector, input))
              [] connector \in SessionService.clerks ->
                    Processed("AuthTokensNotGiven",
                              RequestAuthInfo(EmptyTokens, {}, None),
                              server_nonce_info, www_authenticate)
              [] connector \in SessionService.supplicants ->
                    registering(session_supplicant_process_tokens(
                        connector, input, server_nonce_info))
              [] connector \in Phases
                 /\ algorithm_of(connector) \in SessionService.algorithms ->
                    unchanged(session_process_tokens(connector, input))
              [] connector \in Phases /\ algorithm_of(connector) = "PlainAuth"
                    -> unchanged(plain_process_tokens(connector, input))
              [] connector = "DigestAuth.SolicitCredsFromClient" ->
                    registering(digest_solicit_process_tokens(
                        input, a, request, server_nonce_info))
              [] connector = "DigestAuth.VerifyCredsWithBackend" ->
                    unchanged(digest_verify_creds_process_tokens(input, a))
              [] connector = "DigestAuth.VerifyBackendResponse" ->
                    registering(digest_verify_response_process_tokens(
                        input, a, request, server_nonce_info)))

\* The state of a run of _process_phase: the exception that ended it (None
\* while it runs), the current auth info and affordances, the nonce table,
\* the response header, and the process_tokens calls made so far: their
\* number, the scanners' included, and in steps the connectors that
\* _process_phase called it on, in order.  threaded holds, for every call
\* that returned, the realm, algorithm and provisions of the auth info
\* given to the step, of the one the connector returned and of the one
\* threaded on.
Run(exc, info, a, server_nonce_info, www_authenticate, calls) ==
    [exc |-> exc, info |-> info, a |-> a,
     server_nonce_info |-> server_nonce_info,
     www_authenticate |-> www_authenticate, calls |-> calls,
     steps |-> << >>, threaded |-> << >>]

\* Authenticator._interconnect_affordances
_interconnect_affordances(run, next_connector) ==
    LET updated == _update_afforded_tokens_from_auth_info(
                        run.a, DOMAIN run.info.tokens)
        connected(next_affordances) ==
            [run EXCEPT !.a = [next_affordances EXCEPT
                                !.outputs = next_affordances.inputs,
                                !.inputs = updated.inputs]]
    IN IF run.exc # None THEN run
       ELSE IF next_connector # None
       THEN connected(affordances(next_connector, updated, MaxAffordances))
       ELSE [run EXCEPT !.a = updated]

\* a step that keeps the realm of the info it got from the connector, even
\* when that is None
_process_tokens_forgetting_realm(connector, run, request) ==
    LET new_auth_info(info) ==
            [info EXCEPT
                !.provisions = @ \cap run.info.provisions,
                !.algorithm = IF @ = None THEN run.info.algorithm ELSE @]
        updating(processed) ==
            [Run(processed.exc,
                 IF processed.exc = None THEN new_auth_info(processed.info)
                 ELSE run.info,
                 run.a, processed.server_nonce_info,
                 processed.www_authenticate, run.calls + 1)
                EXCEPT !.steps = Append(run.steps, connector),
                       !.threaded =
                            IF processed.exc # None THEN run.threaded
                            ELSE Append(run.threaded,
                                    [name \in {"given", "returned", "kept"} |->
                                        [field \in {"realm", "algorithm",
                                                    "provisions"} |->
                                            CASE name = "given" ->
                                                    run.info[field]
                                              [] name = "returned" ->
                                                    processed.info[field]
                                              [] name = "kept" ->
                                                    new_auth_info(
                                                        processed.info)[field]
                                        ]])]
    IN IF run.exc # None THEN run
       ELSE updating(process_tokens(connector, run.info.tokens, run.a,
                        request, run.server_nonce_info, run.www_authenticate))

\* Authenticator._process_tokens_updating_info
_process_tokens_updating_info(connector, run, request) ==
    LET new_auth_info(info) ==
            [info EXCEPT
                !.realm = IF @ = None THEN run.info.realm ELSE @,
                !.provisions = @ \cap run.info.provisions,
                !.algorithm = IF @ = None THEN run.info.algorithm ELSE @]
        updating(processed) ==
            [Run(processed.exc,
                 IF processed.exc = None THEN new_auth_info(processed.info)
                 ELSE run.info,
                 run.a, processed.server_nonce_info,
                 processed.www_authenticate, run.calls + 1)
                EXCEPT !.steps = Append(run.steps, connector),
                       !.threaded =
                            IF processed.exc # None THEN run.threaded
                            ELSE Append(run.threaded,
                                    [name \in {"given", "returned", "kept"} |->
                                        [field \in {"realm", "algorithm",
                                                    "provisions"} |->
                                            CASE name = "given" ->
                                                    run.info[field]
                                              [] name = "returned" ->
                                                    processed.info[field]
                                              [] name = "kept" ->
                                                    new_auth_info(
                                                        processed.info)[field]
                                        ]])]
    IN IF run.exc # None THEN run
       ELSE updating(process_tokens(connector, run.info.tokens, run.a,
                        request, run.server_nonce_info, run.www_authenticate))

\* a _process_phase that, for a phase targeting the clerk, processes the
\* clerk before the phase
_process_phase_clerk_first(phase, scanner, clerk, supplicant, run, request) ==
    CASE output_target(phase) = "clerk" ->
            _process_tokens_updating_info(phase,
                _interconnect_affordances(
                    _process_tokens_updating_info(clerk,
                        _interconnect_affordances(run, clerk), request),
                    scanner),
                request)
      [] output_target(phase) = "supplicant" ->
            _process_tokens_updating_info(next_phase(phase),
                _interconnect_affordances(
                    _interconnect_affordances(
                        _process_tokens_updating_info(supplicant,
                            _interconnect_affordances(
                                _process_tokens_updating_info(phase,
                                    _interconnect_affordances(run, supplicant),
                                    request),
                                next_phase(phase)),
                            request),
                        None),
                    None),
                request)
      [] output_target(phase) = "end" ->
            _process_tokens_updating_info(phase,
                _interconnect_affordances(run, None), request)

RECURSIVE _process_phase(_, _, _, _, _, _)
\* Authenticator._process_phase
_process_phase(phase, scanner, clerk, supplicant, run, request) ==
    CASE output_target(phase) = "clerk" ->
            _process_tokens_updating_info(clerk,
                _interconnect_affordances(
                    _process_tokens_updating_info(phase,
                        _interconnect_affordances(run, clerk), request),
                    scanner),
                request)
      [] output_target(phase) = "supplicant" ->
            LET continued(supplied) ==
                    IF supplied.exc # None THEN supplied
                    ELSE _process_phase(next_phase(phase), scanner, clerk,
                            supplicant,
                            _interconnect_affordances(supplied, None),
                            request)
            IN continued(
                    _process_tokens_updating_info(supplicant,
                        _interconnect_affordances(
                            _process_tokens_updating_info(phase,
                                _interconnect_affordances(run, supplicant),
                                request),
                            next_phase(phase)),
                        request))
      [] output_target(phase) = "end" ->
            _process_tokens_updating_info(phase,
                _interconnect_affordances(run, None), request)

\* ------------------------------------------------------------------------
\* Authenticator.ensure_auth and has_auth
\* ------------------------------------------------------------------------

\* AffordanceSet(realms=..., provisionsets=..., algorithms=...): the
\* caller's arguments of ensure_auth and has_auth
AffordanceSet(realms_, provisionsets_, algorithms_) ==
    [MaxAffordances EXCEPT !.realms = realms_,
                           !.provisionsets = provisionsets_,
                           !.algorithms = algorithms_]

\* the argument combinations a caller passes: the defaults, or one of
\* realms, provisionsets and algorithms given
AnyAuth == AffordanceSet(Universal, Universal, Universal)

InOtherRealm == AffordanceSet(Finite({"other.org"}), Universal, Universal)

WithClientAuth ==
    AffordanceSet(Universal, Finite({SECPROV_CLIENT_AUTH}), Universal)

ByDigest == AffordanceSet(Universal, Universal, Finite({"DigestAuth"}))

\* the calls of ensure_auth and has_auth that resources make: the defaults
\* at every location, and each argument at a location or two
Calls ==
    {[loc |-> loc, args |-> AnyAuth] : loc \in Locs}
    \cup {[loc |-> <<"a">>, args |-> InOtherRealm],
          [loc |-> <<"a">>, args |-> ByDigest],
          [loc |-> <<"a", "d">>, args |-> WithClientAuth],
          [loc |-> <<"n">>, args |-> ByDigest]}

\* Authenticator._affordances_score: float('-inf') is -1 here, below every
\* provisions score
_affordances_score(a) ==
    IF a.provisionsets.els = {} THEN -1
    ELSE CHOOSE score \in {_provisions_score(provisions) :
                                provisions \in a.provisionsets.els} :
            \A provisions \in a.provisionsets.els :
                _provisions_score(provisions) <= score

\* Authenticator._resolved_affordancesets_and_phases: one entry per
\* algorithm that recognizes a next phase
_resolved_affordancesets_and_phases(a) ==
    {<< _resolved_entry_phase_affordancesets(phase, a), phase >> :
     phase \in {algorithm_next_phase(algorithm, a, MaxAffordances) :
                    algorithm \in a.algorithms.els} \ {None}}

\* a selection that ranks by score alone, whatever the phase
_best_by_score_alone(entries) ==
    LET scored == UNION {{<< affordances_, entry[2] >> :
                            affordances_ \in entry[1]} : entry \in entries}
    IN {c \in scored :
            /\ _affordances_score(c[1]) > -1
            /\ \A other \in scored :
                    _affordances_score(other[1]) <= _affordances_score(c[1])}

\* Authenticator._best_resolved_prospective_affordances_and_phase, from the
\* entries (affordancesets, phase) that
\* _resolved_affordancesets_and_phases returns on.  The
\* entries and the affordance sets of an entry are visited in the iteration
\* order of sets, and only a strictly better score replaces the best so far:
\* among the entries of the furthest phase every affordance set of the top
\* score can be the one returned.  The result is the set of these; it is
\* empty when the source returns (None, None).
_best_resolved_prospective_affordances_and_phase(entries) ==
    LET best_phase_progress(entries_) ==
            CHOOSE progress \in {index(entry[2]) : entry \in entries_} :
                \A entry \in entries_ : index(entry[2]) <= progress
        contenders(entries_, progress) ==
            UNION {{<< affordances_, entry[2] >> : affordances_ \in entry[1]} :
                   entry \in {e \in entries_ : index(e[2]) = progress}}
        top(scored) ==
            {c \in scored :
                \A other \in scored :
                    _affordances_score(other[1]) <= _affordances_score(c[1])}
    IN IF entries = {} THEN {}
       ELSE top({c \in contenders(entries, best_phase_progress(entries)) :
                    _affordances_score(c[1]) > -1})

\* the names of the empty components: AffordanceSetABC.require_nonempty
\* raises when there is one
empty_components(a, names) == {name \in names : ~nonempty(a[name])}

\* require_finite that exempts no component
infinite_components_unexempted(a, names) ==
    {name \in DOMAIN a : ~a[name].fin}

\* the names of the infinite components, for require_finite
infinite_components(a, names) == {name \in names : ~a[name].fin}

GeneralComponents == {"realms", "provisionsets", "algorithms"}

ProspectiveComponents ==
    GeneralComponents
    \cup {"inputs", "outputs", "scanners", "clerks", "supplicants"}

\* has_auth without the test of accepted
has_auth_unaccepted(loc, args, current_auth_info) ==
    /\ current_auth_info.present
    /\ \/ current_auth_info.info.space = None
       \/ \E spaceloc \in spaces_locs(current_auth_info.info.space) :
            re_match(spaceloc, loc)
    /\ uset_in(current_auth_info.info.realm, args.realms)
    /\ uset_in(current_auth_info.info.provisions, args.provisionsets)
    /\ uset_in(current_auth_info.info.algorithm, args.algorithms)

\* Authenticator.has_auth on the service's current auth info, which is None
\* when no request is being handled.  The result of the and-chain is true
\* exactly when every operand is.
has_auth(loc, args, current_auth_info) ==
    /\ current_auth_info.present
    /\ current_auth_info.info.accepted = "True"
    /\ \/ current_auth_info.info.space = None
       \/ \E spaceloc \in spaces_locs(current_auth_info.info.space) :
            re_match(spaceloc, loc)
    /\ uset_in(current_auth_info.info.realm, args.realms)
    /\ uset_in(current_auth_info.info.provisions, args.provisionsets)
    /\ uset_in(current_auth_info.info.algorithm, args.algorithms)

\* How a call of ensure_auth ends: result is "returned" or the class of
\* the exception raised; then the request's auth info, the nonce table and
\* the response header it leaves, the number of process_tokens calls it
\* made, whether it assigned current_auth_info, and the realm, algorithm
\* and connectors it chose (None if it chose none).  redirection is the
\* location of the ResponseRedirection that the exception carries, and
\* set_cookie the session_id cookie set on the response; both are None
\* unless a session clerk gives them.  steps are the connectors that
\* processed tokens, in order, threaded what each was given and returned,
\* and fed the tokens of the auth info that the first of them was given;
\* confirmations are the calls of the clerk's confirm_auth_info.
Ended(result, auth_info_, server_nonce_info_, www_authenticate_, calls, assigned, chosen) ==
    [result |-> result, auth_info |-> auth_info_,
     server_nonce_info |-> server_nonce_info_,
     www_authenticate |-> www_authenticate_, calls |-> calls,
     assigned |-> assigned, chosen |-> chosen, redirection |-> None,
     set_cookie |-> None, infinite_components |-> {}, steps |-> << >>,
     threaded |-> << >>, fed |-> << >>, confirmations |-> << >>]

NothingChosen ==
    [realm |-> None, algorithm |-> None, clerk |-> None, scanner |-> None,
     supplicant |-> None]

UnauthenticatedExceptions == {"AuthTokensNotGiven", "AuthTokensNotAccepted"}

\* session clerks whose rejection carries no redirection
session_confirm_auth_info_unredirected(clerk, info) ==
    [exc |-> IF info.accepted = "True" THEN None
             ELSE "AuthTokensNotAccepted",
     redirection |-> None,
     set_cookie |-> IF clerk = "TornadoSessionLoginClerk"
                       /\ info.accepted = "True"
                    THEN info.tokens["session_id"] ELSE None]

\* TornadoSessionLoginClerk._confirm_auth_info over
\* HttpSessionLoginClerk._confirm_auth_info, and
\* HttpSessionRecallClerk._confirm_auth_info: the exception raised (None if
\* it returns), the location its redirection names, and the session_id
\* cookie set on the response
session_confirm_auth_info(clerk, info) ==
    LET login == clerk = "TornadoSessionLoginClerk"
        accepted == info.accepted = "True"
        redirect == login /\ accepted /\ "redirect" \in DOMAIN info.tokens
    IN IF login /\ accepted /\ "session_id" \notin DOMAIN info.tokens
       THEN [exc |-> "AttributeError", redirection |-> None,
             set_cookie |-> None]
       ELSE [exc |-> IF ~accepted THEN "AuthTokensNotAccepted"
                     ELSE IF redirect THEN "ResponseRedirection"
                     ELSE None,
             redirection |-> IF ~accepted THEN SessionService.login_uri
                             ELSE IF redirect THEN info.tokens["redirect"]
                             ELSE None,
             set_cookie |-> IF login /\ accepted
                            THEN info.tokens["session_id"] ELSE None]

\* an end of ensure_auth that records the auth info that the phases left
\* and confirms nothing: an unverified auth info is an unaccepted one
ensure_auth_completed_unconfirmed(run, started, chosen, auth_info_, process_affordances) ==
    IF run.exc # None
    THEN Ended(run.exc, auth_info_, run.server_nonce_info,
               run.www_authenticate, run.calls, FALSE, chosen)
    ELSE Ended(IF run.info.accepted = "True" THEN "returned"
               ELSE "AuthTokensNotAccepted",
               run.info, run.server_nonce_info, run.www_authenticate,
               run.calls, TRUE, chosen)

\* Authenticator.ensure_auth once _process_phase has returned or raised,
\* lines 281 to 314.  An Unauthenticated exception leaves after the auth
\* info it was started with is recorded as current; any other exception
\* leaves at once.  Otherwise the auth info returned is recorded as
\* current, an unverified one raises Error, and a verified one is handed
\* to the clerk's confirm_auth_info: confirmations holds, for each such
\* call, the auth info it was given and the current auth info at the call.
ensure_auth_completed(run, started, chosen, auth_info_, process_affordances) ==
    LET confirming(ended) ==
            [ended EXCEPT !.confirmations =
                << [info |-> run.info, current |-> run.info] >>]
        \* the Unauthenticated exceptions of a session clerk carry a
        \* redirection to the login URI
        confirmed(confirmation) ==
            [Ended(IF confirmation.exc = None THEN "returned"
                   ELSE confirmation.exc,
                   run.info, run.server_nonce_info, run.www_authenticate,
                   run.calls, TRUE, chosen)
                EXCEPT !.redirection = confirmation.redirection,
                       !.set_cookie = confirmation.set_cookie]
    IN IF run.exc \in UnauthenticatedExceptions
       THEN [Ended(run.exc, started, run.server_nonce_info,
                   run.www_authenticate, run.calls, TRUE, chosen)
               EXCEPT !.redirection =
                   IF chosen.clerk \in SessionService.clerks
                   THEN SessionService.login_uri ELSE None]
       ELSE IF run.exc # None
       THEN Ended(run.exc, auth_info_, run.server_nonce_info,
                  run.www_authenticate, run.calls, FALSE, chosen)
       ELSE IF ~verified(run.info)
       THEN Ended("Error", run.info, run.server_nonce_info,
                  run.www_authenticate, run.calls, TRUE, chosen)
       ELSE IF chosen.clerk \in SessionService.clerks
       THEN confirming(confirmed(session_confirm_auth_info(chosen.clerk,
                                                           run.info)))
       ELSE IF run.info.accepted = "True"
       THEN confirming(Ended("returned", run.info, run.server_nonce_info,
                             run.www_authenticate, run.calls, TRUE, chosen))
       ELSE confirming(
                Ended("AuthTokensNotAccepted", run.info,
                      run.server_nonce_info,
                      challenged(chosen.clerk,
                                 challenge_realms(process_affordances.realms,
                                                  FALSE),
                                 run.info.tokens, run.www_authenticate),
                      run.calls, TRUE, chosen))

\* an ensure_auth that leaves the current auth info as it was when it
\* raises an Unauthenticated exception
ensure_auth_process_keeping(space, best, chosen, scanned, calls, request, auth_info_, server_nonce_info_, www_authenticate_) ==
    LET started ==
            [scanned EXCEPT !.space = space, !.realm = chosen.realm,
                            !.algorithm = chosen.algorithm,
                            !.clerk = chosen.clerk,
                            !.scanner = chosen.scanner,
                            !.supplicant = chosen.supplicant]
        process_affordances ==
            from_general(_update_afforded_tokens_from_auth_info(
                            best[1], DOMAIN scanned.tokens),
                         Universal, Universal, Universal)
        keeping(ended) ==
            IF ended.result \in UnauthenticatedExceptions
            THEN [ended EXCEPT !.auth_info = auth_info_]
            ELSE ended
        ending(run) ==
            keeping([ensure_auth_completed(run, started, chosen, auth_info_,
                                           process_affordances)
                        EXCEPT !.steps = run.steps,
                               !.threaded = run.threaded,
                               !.fed = scanned.tokens])
    IN ending(_process_phase(best[2], chosen.scanner, chosen.clerk,
                    chosen.supplicant,
                    Run(None, started, process_affordances,
                        server_nonce_info_, www_authenticate_, calls),
                    request))

\* Authenticator.ensure_auth from the choice of the process on: lines 240
\* to 314 of the source, for the best affordances and phase and the
\* elements that iter(...).next() yields
ensure_auth_process(space, best, chosen, scanned, calls, request, auth_info_, server_nonce_info_, www_authenticate_) ==
    LET prospective_affordances ==
            _update_afforded_tokens_from_auth_info(
                best[1], DOMAIN scanned.tokens)
        started ==
            [scanned EXCEPT !.space = space, !.realm = chosen.realm,
                            !.algorithm = chosen.algorithm,
                            !.clerk = chosen.clerk,
                            !.scanner = chosen.scanner,
                            !.supplicant = chosen.supplicant]
        process_affordances ==
            from_general(prospective_affordances, Universal, Universal,
                         Universal)
        ending(run) ==
            [ensure_auth_completed(run, started, chosen, auth_info_,
                                   process_affordances)
                EXCEPT !.steps = run.steps, !.threaded = run.threaded,
                       !.fed = scanned.tokens]
    IN ending(_process_phase(best[2], chosen.scanner, chosen.clerk,
                    chosen.supplicant,
                    Run(None, started, process_affordances,
                        server_nonce_info_, www_authenticate_, calls),
                    request))

\* Authenticator.ensure_auth, lines 132 to 189: the affordances of the
\* Space at loc under the caller's arguments, with the registered
\* algorithms and connectors that support them
given_affordances(loc, args) ==
    IF spaces_get(loc) # None
    THEN [affordances(spaces_get(loc), args, MaxAffordances) EXCEPT
            !.inputs = Universal, !.outputs = Universal]
    ELSE MaxAffordances

\* the connector types of ensure_auth: the components of the resolution
\* affordances that hold algorithms and connectors
ConnectorKinds == {"algorithms", "clerks", "scanners", "supplicants"}

\* the registered algorithms or connectors of a kind, within the Space at
\* loc when there is one
candidates(loc, args, kind) ==
    LET registered ==
            CASE kind = "algorithms" ->
                    IF nonempty(args.algorithms)
                    THEN uset_and(args.algorithms, Finite(Algorithms))
                    ELSE Finite(Algorithms)
              [] kind = "clerks" -> Finite(Clerks)
              [] kind = "scanners" -> Finite(Scanners)
              [] kind = "supplicants" -> Finite(Supplicants)
        \* at the session service's locations, the algorithms and connectors
        \* registered with that service's authenticator
        of_service ==
            IF loc \notin SessionService.locs THEN registered
            ELSE IF kind = "algorithms" /\ nonempty(args.algorithms)
            THEN uset_and(args.algorithms, Finite(SessionService[kind]))
            ELSE Finite(SessionService[kind])
        within(space) ==
            IF space = None THEN of_service
            ELSE uset_and(IF kind = "algorithms"
                          THEN algorithms(space, MaxAffordances,
                                          MaxAffordances)
                          ELSE space_def(space)[kind],
                          of_service)
    IN within(spaces_get(loc))

\* filter connectors by general affordances: the given affordances with
\* the candidates of each kind that support them
filter_connectors(loc, args, given) ==
    LET filtered(meeting) ==
            [given EXCEPT !.algorithms = meeting["algorithms"],
                          !.clerks = meeting["clerks"],
                          !.scanners = meeting["scanners"],
                          !.supplicants = meeting["supplicants"]]
    IN filtered(
        [kind \in ConnectorKinds |->
            Finite({connector \in candidates(loc, args, kind).els :
                        supports_affordances(connector, given,
                                             MaxAffordances)})])

resolution_affordances(loc, args) ==
    filter_connectors(loc, args, given_affordances(loc, args))

\* Authenticator.ensure_auth, lines 231 to 238, for every location,
\* arguments and set of token sets that the scanners can add to the
\* prospective outputs: the resolution reads nothing else, and it is worked
\* out once for each
resolved_bests ==
    [loc \in Locs \cup SessionService.locs,
     args \in {AnyAuth, InOtherRealm, WithClientAuth, ByDigest},
     scanned_outputs \in
        {{{}} \cup recognized :
            recognized \in {{}, {{"user", "password"}}, {TOKENS_QOP_AUTH},
                            {{"session_id"}},
                            {{"user", "password"}, {"session_id"}}}} |->
        IF empty_components(given_affordances(loc, args),
                            GeneralComponents) # {}
        THEN {}
        ELSE UNION {
                IF \E kind \in ConnectorKinds : ~nonempty(resolution[kind])
                THEN {}
                ELSE _best_resolved_prospective_affordances_and_phase(
                        _resolved_affordancesets_and_phases(
                            [resolution EXCEPT
                                !.outputs = Finite(scanned_outputs)])) :
                resolution \in {resolution_affordances(loc, args)}}]

\* Authenticator.ensure_auth, lines 205 to 229: every scanner is asked, in
\* the iteration order of the set, and NoValidTokensScanned is passed over.
\* The tokens of each scanner that recognizes some are added to the
\* prospective outputs, which start as ((),), and scanned_auth_info is left
\* as the auth info of the last scanner that recognized tokens, or an empty
\* one when none did.  The result is the set of the ways in which the scan
\* can end.
scanned_auth_info(scanners, request) ==
    LET scanned_of(scanned_infos) ==
            IF scanned_infos = {}
            THEN {[info |-> RequestAuthInfo(EmptyTokens, {}, None),
                   outputs |-> {{}}]}
            ELSE {[info |-> last,
                   outputs |-> {{}} \cup {DOMAIN info.tokens :
                                            info \in scanned_infos}] :
                  last \in scanned_infos}
    IN scanned_of(
        {scan.info :
            scan \in {s \in {scanner_process_tokens(scanner, request) :
                                scanner \in scanners} :
                        s.exc = None}})

\* Authenticator.ensure_auth for one best resolution: require_nonempty and
\* require_finite, then the process for every element that
\* iter(...).next() can yield
ensure_auth_best(loc, best, scanned, calls, request, auth_info_, server_nonce_info_, www_authenticate_) ==
    LET ended(result) ==
            {Ended(result, auth_info_, server_nonce_info_,
                   www_authenticate_, calls, FALSE, NothingChosen)}
    IN IF empty_components(best[1], ProspectiveComponents) # {}
          \/ empty_components(
                _update_afforded_tokens_from_auth_info(
                    best[1], DOMAIN scanned.tokens),
                ProspectiveComponents) # {}
       THEN ended("AttributeError")
       \* exceptions=('outputs') is a string: it exempts outputs alone
       ELSE IF infinite_components(
                    _update_afforded_tokens_from_auth_info(
                        best[1], DOMAIN scanned.tokens),
                    ProspectiveComponents \ {"outputs"}) # {}
       THEN {[e EXCEPT !.infinite_components =
                    infinite_components(
                        _update_afforded_tokens_from_auth_info(
                            best[1], DOMAIN scanned.tokens),
                        ProspectiveComponents \ {"outputs"})] :
             e \in ended("InfiniteAffordances")}
       ELSE {ensure_auth_process(spaces_get(loc), best, chosen, scanned,
                calls, request, auth_info_, server_nonce_info_,
                www_authenticate_) :
             chosen \in
                [realm : best[1].realms.els,
                 algorithm : best[1].algorithms.els,
                 clerk : best[1].clerks.els, scanner : best[1].scanners.els,
                 supplicant : best[1].supplicants.els]}

\* an ensure_auth that lets NoValidTokensScanned leave when no scanner
\* recognized tokens
ensure_auth_scanned_propagating(loc, args, scans, calls, request, auth_info_, server_nonce_info_, www_authenticate_) ==
    UNION {
        IF scanned.outputs = {{}}
        THEN {Ended("NoValidTokensScanned", auth_info_, server_nonce_info_,
                    www_authenticate_, calls, FALSE, NothingChosen)}
        ELSE UNION {ensure_auth_best(loc, best, scanned.info, calls,
                        request, auth_info_, server_nonce_info_,
                        www_authenticate_) :
                    best \in resolved_bests[loc, args, scanned.outputs]} :
        scanned \in scans}

\* Authenticator.ensure_auth once the scanners have run: for each way in
\* which the scan can have ended, the best resolutions for the scanned
\* outputs, and the process for each
ensure_auth_scanned(loc, args, scans, calls, request, auth_info_, server_nonce_info_, www_authenticate_) ==
    UNION {
        IF resolved_bests[loc, args, scanned.outputs] = {}
        THEN {Ended("Error", auth_info_, server_nonce_info_,
                    www_authenticate_, calls, FALSE, NothingChosen)}
        ELSE UNION {ensure_auth_best(loc, best, scanned.info, calls,
                        request, auth_info_, server_nonce_info_,
                        www_authenticate_) :
                    best \in resolved_bests[loc, args, scanned.outputs]} :
        scanned \in scans}

\* Authenticator.ensure_auth past the has_auth test: the set of ways in
\* which the negotiation can end.  There are several where the source picks
\* from a set in iteration order.
\* negotiate, but a connector type that nothing remains of raises an
\* Unauthenticated exception
negotiate_unauthenticated(loc, args, request, auth_info_, server_nonce_info_, www_authenticate_) ==
    LET ended(result) ==
            {Ended(result, auth_info_, server_nonce_info_,
                   www_authenticate_, 0, FALSE, NothingChosen)}
    IN IF empty_components(given_affordances(loc, args),
                           GeneralComponents) # {}
       THEN ended("AttributeError")
       ELSE UNION {
                IF \E kind \in ConnectorKinds : ~nonempty(resolution[kind])
                THEN ended("AuthTokensNotGiven")
                ELSE ensure_auth_scanned(loc, args,
                        scanned_auth_info(resolution.scanners.els, request),
                        Cardinality(resolution.scanners.els), request,
                        auth_info_, server_nonce_info_, www_authenticate_) :
                resolution \in {resolution_affordances(loc, args)}}

negotiate(loc, args, request, auth_info_, server_nonce_info_, www_authenticate_) ==
    LET ended(result) ==
            {Ended(result, auth_info_, server_nonce_info_,
                   www_authenticate_, 0, FALSE, NothingChosen)}
    IN IF empty_components(given_affordances(loc, args),
                           GeneralComponents) # {}
       THEN ended("AttributeError")
       ELSE UNION {
                IF \E kind \in ConnectorKinds : ~nonempty(resolution[kind])
                THEN ended("Error")
                ELSE ensure_auth_scanned(loc, args,
                        scanned_auth_info(resolution.scanners.els, request),
                        Cardinality(resolution.scanners.els), request,
                        auth_info_, server_nonce_info_, www_authenticate_) :
                resolution \in {resolution_affordances(loc, args)}}

\* ensure_auth without the has_auth test: it always negotiates
ensure_auth_negotiating(loc, args, request, auth_info_, server_nonce_info_, www_authenticate_) ==
    negotiate(loc, args, request, auth_info_, server_nonce_info_,
              www_authenticate_)

\* Authenticator.ensure_auth: it returns at once when has_auth holds for
\* the same arguments, and negotiates otherwise.  The result is the set of
\* ways in which the call can end.
ensure_auth(loc, args, request, auth_info_, server_nonce_info_, www_authenticate_) ==
    IF has_auth(loc, args, [present |-> request.present, info |-> auth_info_])
    THEN {Ended("returned", auth_info_, server_nonce_info_,
                www_authenticate_, 0, FALSE, NothingChosen)}
    ELSE negotiate(loc, args, request, auth_info_, server_nonce_info_,
                   www_authenticate_)

\* ------------------------------------------------------------------------
\* The service handling requests

\* the Authorization headers requests carry; a Digest header answers the
\* first or the second nonce that the algorithm hands out
Authorizations ==
    {NoAuthorization}
    \cup {[scheme |-> "Basic", user |-> basic[1], password |-> basic[2],
           server_nonce |-> None, nc |-> 0] :
            basic \in ({"alice"} \X Passwords) \cup {<< "bob", "pw2" >>}}
    \cup {[scheme |-> "Digest", user |-> "alice", password |-> password,
           server_nonce |-> server_nonce, nc |-> nc] :
            password \in Passwords,
            server_nonce \in {NonceSeq(MaxNonces)[1], NonceSeq(MaxNonces)[2]},
            nc \in {0, 1}}

\* WebRequest: present is false for the service's current_request of None.
\* webmethod_args are the arguments of the web method called and cookie is
\* the value of the session_id cookie, None when the request has none.
WebRequest(loc, authorization) ==
    [present |-> TRUE, loc |-> loc, uri |-> loc_path(loc),
     impl_method |-> "GET", authorization |-> authorization,
     webmethod_args |-> EmptyTokens, cookie |-> None]

NoRequest ==
    [present |-> FALSE, loc |-> << >>, uri |-> "", impl_method |-> "GET",
     authorization |-> NoAuthorization, webmethod_args |-> EmptyTokens,
     cookie |-> None]

\* what the last operation was and how it ended; accepted_before tells
\* whether the request's auth info was an accepted one when an ensure_auth
\* was called, and used holds, where requests are handled whole, each
\* server nonce with the use count that a request carried when a use of the
\* nonce was counted
Outcome(op, loc, args, result, calls, assigned, chosen, had_auth) ==
    [op |-> op, loc |-> loc, args |-> args, result |-> result,
     calls |-> calls, assigned |-> assigned, chosen |-> chosen,
     had_auth |-> had_auth, redirection |-> None, set_cookie |-> None,
     infinite_components |-> {}, steps |-> << >>, threaded |-> << >>,
     fed |-> << >>, confirmations |-> << >>, accepted_before |-> FALSE,
     used |-> {}]

VARIABLES
    current_request,    \* WebServiceImpl.current_request
    auth_info,          \* WebRequest.auth_info of the current request
    server_nonce_info,  \* DigestAuth's table of server nonces
    www_authenticate,   \* the WWW-Authenticate header of the response
    memcache,           \* the session infos stored in Memcache, by session id
    outcome             \* the last operation and how it ended

vars ==
    << current_request, auth_info, server_nonce_info, www_authenticate,
       memcache, outcome >>

\* the state of the service, its authenticator and its request that
\* operations read and write
service_state ==
    << current_request, auth_info, server_nonce_info, www_authenticate,
       memcache >>

\* WebServiceImpl.current_auth_info
current_auth_info ==
    [present |-> current_request.present, info |-> auth_info]

Init ==
    /\ current_request = NoRequest
    /\ auth_info = RequestAuthInfo(EmptyTokens, {}, None)
    /\ server_nonce_info = [nonce \in {} |-> [use_count |-> 0]]
    /\ www_authenticate = None
    /\ memcache = [id \in {} |-> [user |-> None, accepted |-> None]]
    /\ outcome = Outcome("none", << >>, MaxAffordances, None, 0, FALSE,
                         NothingChosen, FALSE)

\* a request arrives: WebRequest.__init__ gives it a fresh auth info
BeginRequest(loc, authorization) ==
    /\ ~current_request.present
    /\ current_request' = WebRequest(loc, authorization)
    /\ auth_info' = RequestAuthInfo(EmptyTokens, {}, None)
    /\ www_authenticate' = None
    /\ outcome' = Outcome("begin", loc, MaxAffordances, None, 0, FALSE,
                          NothingChosen, FALSE)
    /\ UNCHANGED << server_nonce_info, memcache >>

\* the response is sent and the service has no current request
EndRequest ==
    /\ current_request.present
    /\ current_request' = NoRequest
    /\ auth_info' = RequestAuthInfo(EmptyTokens, {}, None)
    /\ www_authenticate' = None
    /\ outcome' = Outcome("end", << >>, MaxAffordances, None, 0, FALSE,
                          NothingChosen, FALSE)
    /\ UNCHANGED << server_nonce_info, memcache >>

\* an ensure_auth that lets an Unauthenticated exception leave before the
\* auth info is recorded
EnsureAuth_discarding(loc, args) ==
    /\ current_request.present
    /\ \E ended \in ensure_auth(loc, args, current_request, auth_info,
                                server_nonce_info, www_authenticate) :
        /\ ended.result # OutOfBounds
        /\ auth_info' = IF ended.result \in UnauthenticatedExceptions
                        THEN auth_info ELSE ended.auth_info
        /\ server_nonce_info' = ended.server_nonce_info
        /\ www_authenticate' = ended.www_authenticate
        /\ outcome' = Outcome("ensure_auth", loc, args, ended.result,
                              ended.calls, ended.assigned, ended.chosen,
                              has_auth(loc, args, current_auth_info))
    /\ UNCHANGED << current_request, memcache >>

\* Authenticator.ensure_auth(loc, realms, provisionsets, algorithms) while a
\* request is handled
EnsureAuth(loc, args) ==
    /\ current_request.present
    /\ \E ended \in ensure_auth(loc, args, current_request, auth_info,
                                server_nonce_info, www_authenticate) :
        /\ ended.result # OutOfBounds
        /\ auth_info' = ended.auth_info
        /\ server_nonce_info' = ended.server_nonce_info
        /\ www_authenticate' = ended.www_authenticate
        /\ outcome' =
                [Outcome("ensure_auth", loc, args, ended.result,
                         ended.calls, ended.assigned, ended.chosen,
                         has_auth(loc, args, current_auth_info))
                    EXCEPT !.infinite_components = ended.infinite_components,
                           !.steps = ended.steps,
                           !.threaded = ended.threaded,
                           !.fed = ended.fed,
                           !.confirmations = ended.confirmations,
                           !.accepted_before = auth_info.accepted = "True"]
    /\ UNCHANGED << current_request, memcache >>

\* a has_auth that notes the Space it was asked about in the auth info
HasAuth_recording(loc, args) ==
    /\ outcome' = Outcome("has_auth", << >>, MaxAffordances,
                          str(has_auth(loc, args, current_auth_info)), 0,
                          FALSE, NothingChosen,
                          has_auth(loc, args, current_auth_info))
    /\ auth_info' = [auth_info EXCEPT !.space = spaces_get(loc)]
    /\ UNCHANGED << current_request, server_nonce_info, www_authenticate,
                    memcache >>

\* Authenticator.has_auth(loc, realms, provisionsets, algorithms), with or
\* without a current request
HasAuth(loc, args) ==
    /\ outcome' = Outcome("has_auth", << >>, MaxAffordances,
                          str(has_auth(loc, args, current_auth_info)), 0,
                          FALSE, NothingChosen,
                          has_auth(loc, args, current_auth_info))
    /\ UNCHANGED service_state

\* requests arrive at three of the locations, with one of the
\* Authorization headers
Next ==
    \/ \E loc \in {<<"a", "d">>, <<"n">>, <<"p">>},
          authorization \in Authorizations :
            BeginRequest(loc, authorization)
    \/ EndRequest
    \/ \E call \in Calls : EnsureAuth(call.loc, call.args)
    \/ \E call \in Calls : HasAuth(call.loc, call.args)

Spec == Init /\ [][Next]_vars

\* The service goes on serving: while a request can arrive, be handled or
\* end, one does.  Time passes as it does so.
LiveSpec == Spec /\ WF_vars(Next)

\* The handling of one request by a resource whose method calls
\* ensure_auth(loc) once: the request arrives with a fresh auth info,
\* ensure_auth runs, and the response is sent.  The request stays the
\* current one until the next arrives.
HandleRequest(loc, authorization) ==
    \E ended \in ensure_auth(loc, AnyAuth, WebRequest(loc, authorization),
                             RequestAuthInfo(EmptyTokens, {}, None),
                             server_nonce_info, None) :
        /\ ended.result # OutOfBounds
        /\ current_request' = WebRequest(loc, authorization)
        /\ auth_info' = ended.auth_info
        /\ server_nonce_info' = ended.server_nonce_info
        /\ www_authenticate' = ended.www_authenticate
        /\ outcome' =
                [Outcome("ensure_auth", loc, AnyAuth, ended.result,
                         ended.calls, ended.assigned, ended.chosen, FALSE)
                    EXCEPT !.steps = ended.steps,
                           !.used =
                                outcome.used
                                \cup {<< counted, authorization.nc >> :
                                        counted \in
                                            {nonce \in DOMAIN server_nonce_info :
                                                ended.server_nonce_info[nonce]
                                                        .use_count
                                                    > server_nonce_info[nonce]
                                                        .use_count}}]
        /\ UNCHANGED memcache

\* requests arrive one after the other at two locations where the Digest
\* mechanism is used and are handled whole
ReplayNext ==
    \E loc \in {<<"a", "d">>, <<"p">>}, authorization \in Authorizations :
        HandleRequest(loc, authorization)

ReplaySpec == Init /\ [][ReplayNext]_vars

\* ------------------------------------------------------------------------
\* The session service handling requests

\* a request arrives at the session service, with the arguments of a login
\* or with a session_id cookie, which may be one that no login produced
BeginSessionRequest(loc, webmethod_args, cookie) ==
    /\ ~current_request.present
    /\ current_request' =
            [WebRequest(loc, NoAuthorization) EXCEPT
                !.webmethod_args = webmethod_args, !.cookie = cookie]
    /\ auth_info' = RequestAuthInfo(EmptyTokens, {}, None)
    /\ www_authenticate' = None
    /\ outcome' = Outcome("begin", loc, MaxAffordances, None, 0, FALSE,
                          NothingChosen, FALSE)
    /\ UNCHANGED << server_nonce_info, memcache >>

\* Authenticator.ensure_auth(loc) of the session service while a request is
\* handled: its connectors read and write the Memcache store
SessionEnsureAuth(loc) ==
    /\ current_request.present
    /\ \E ended \in ensure_auth(loc, MaxAffordances, current_request,
                                auth_info, memcache, www_authenticate) :
        /\ ended.result # OutOfBounds
        /\ auth_info' = ended.auth_info
        /\ memcache' = ended.server_nonce_info
        /\ www_authenticate' = ended.www_authenticate
        /\ outcome' =
                [Outcome("ensure_auth", loc, MaxAffordances, ended.result,
                         ended.calls, ended.assigned, ended.chosen,
                         has_auth(loc, MaxAffordances, current_auth_info))
                    EXCEPT !.redirection = ended.redirection,
                           !.set_cookie = ended.set_cookie,
                           !.infinite_components = ended.infinite_components,
                           !.steps = ended.steps,
                           !.threaded = ended.threaded,
                           !.fed = ended.fed,
                           !.confirmations = ended.confirmations,
                           !.accepted_before = auth_info.accepted = "True"]
    /\ UNCHANGED << current_request, server_nonce_info >>

\* MemcacheSessionAuthSupplicant.logout(session_id): cache.delete
Logout(session_id) ==
    /\ session_id \in DOMAIN memcache
    /\ memcache[session_id].accepted # None
    /\ memcache' = [memcache EXCEPT
                        ![session_id] = [user |-> None, accepted |-> None]]
    /\ outcome' = Outcome("logout", << >>, MaxAffordances, None, 0, FALSE,
                          NothingChosen, FALSE)
    /\ UNCHANGED << current_request, auth_info, server_nonce_info,
                    www_authenticate >>

\* The Memcache server is shared with its other clients: one of them sets
\* the value stored under a session id to a string that is not the JSON of
\* a session info, which cache.get then returns to the recall supplicant.
StoreUnloadable(session_id) ==
    /\ session_id \in DOMAIN memcache
    /\ memcache[session_id].accepted = "True"
    /\ memcache' = [memcache EXCEPT
                        ![session_id] = [user |-> None,
                                         accepted |-> "unloadable"]]
    /\ outcome' = Outcome("set", << >>, MaxAffordances, None, 0, FALSE,
                          NothingChosen, FALSE)
    /\ UNCHANGED << current_request, auth_info, server_nonce_info,
                    www_authenticate >>

\* TornadoSessionLoginScanner._realms, called while request is the
\* current request of the service: the realm argument of the web method
\* when the request carries one, and otherwise the _realms of the
\* superclass, which no superclass defines
TornadoSessionLoginScanner_realms(up, down, request) ==
    IF "realm" \in DOMAIN request.webmethod_args
    THEN [exc |-> None, realms |-> Finite({request.webmethod_args["realm"]})]
    ELSE [exc |-> "AttributeError", realms |-> None]

\* a login carries a user and a password, and may name a realm; the client
\* that sends it may still hold the cookie of an earlier session
SessionNext ==
    \/ \E loc \in SessionService.locs,
          login \in {<<"alice", "pw1">>, <<"alice", "pw2">>, <<"bob", "pw2">>},
          names \in {{"user", "password"}, {"user", "password", "realm"}},
          cookie \in {None, "sid1"} :
            BeginSessionRequest(loc,
                [name \in names |->
                    CASE name = "user" -> login[1]
                      [] name = "password" -> login[2]
                      [] name = "realm" -> "example.net"],
                cookie)
    \/ \E loc \in SessionService.locs,
          cookie \in {None, "sid0"} \cup SessionIds :
            BeginSessionRequest(loc, EmptyTokens, cookie)
    \/ EndRequest
    \/ \E loc \in SessionService.locs : SessionEnsureAuth(loc)
    \/ \E session_id \in SessionIds : Logout(session_id)
    \/ \E session_id \in SessionIds : StoreUnloadable(session_id)

SessionSpec == Init /\ [][SessionNext]_vars

\* ------------------------------------------------------------------------
\* The algebra of affordance sets (auth/_affordances)
\* ------------------------------------------------------------------------

\* usetset.intersection_product(other): the pairwise intersections
intersection_product(a, b) ==
    IF a.fin /\ b.fin
    THEN Finite({x \cap y : x \in a.els, y \in b.els})
    ELSE Universal

\* AffordanceSetABC.__and__, ProcessAffordanceSetABC.__and__ and
\* ProcessProspectiveAffordanceSetABC.__and__.  A general set and a
\* process set leave the fields they do not have universal.
affordances_and(a, b) ==
    [realms |-> uset_and(a.realms, b.realms),
     provisionsets |-> union_product(a.provisionsets, b.provisionsets),
     algorithms |-> uset_and(a.algorithms, b.algorithms),
     inputs |-> intersection_product(a.inputs, b.inputs),
     outputs |-> union_product(a.outputs, b.outputs),
     scanners |-> uset_and(a.scanners, b.scanners),
     clerks |-> uset_and(a.clerks, b.clerks),
     supplicants |-> uset_and(a.supplicants, b.supplicants)]

\* AffordanceSetABC.__or__, ProcessAffordanceSetABC.__or__ and
\* ProcessProspectiveAffordanceSetABC.__or__: uset.__or__ of every field
affordances_or(a, b) ==
    LET uset_or(x, y) ==
            IF x.fin /\ y.fin THEN Finite(x.els \cup y.els) ELSE Universal
    IN [name \in DOMAIN MaxAffordances |-> uset_or(a[name], b[name])]

\* Two affordance sets are given: general sets, process sets and
\* prospective sets, the universal one and the empty one among them.
AlgebraInit ==
    /\ current_request = NoRequest
    /\ auth_info = RequestAuthInfo(EmptyTokens, {}, None)
    /\ server_nonce_info = [nonce \in {} |-> [use_count |-> 0]]
    /\ www_authenticate = None
    /\ memcache = [id \in {} |-> [user |-> None, accepted |-> None]]
    /\ \E a, b \in
            {MaxAffordances, [name \in DOMAIN MaxAffordances |-> Finite({})],
             InOtherRealm, WithClientAuth, ByDigest,
             AffordanceSet(Finite({"example.net", "other.org"}),
                           Finite({SECPROV_SERVER_NONCE,
                                   SECPROV_CLIENT_NONCE}),
                           Finite(Algorithms)),
             [WithClientAuth EXCEPT
                !.inputs = Finite({{"user", "password"}, TOKENS_NO_QOP}),
                !.outputs = Finite({{"user", "accepted"}})],
             [ByDigest EXCEPT
                !.provisionsets =
                    Finite({SECPROV_CLIENT_AUTH \cup SECPROV_SERVER_NONCE}),
                !.scanners = Finite({"TornadoHttpDigestScanner"}),
                !.clerks = Finite(Clerks)]} :
            outcome = [op |-> "given", a |-> a, b |-> b, result |-> a]

\* result & b, result | b, result & max() or result | max(), of the last
\* result and the second of the sets given
Combine(operator, other) ==
    /\ outcome.op \in {"given", "and", "or"}
    /\ outcome' =
            [op |-> operator, a |-> outcome.result, b |-> other,
             result |-> IF operator = "and"
                        THEN affordances_and(outcome.result, other)
                        ELSE affordances_or(outcome.result, other)]
    /\ UNCHANGED service_state

\* a handler is asked for its feasible realms, provision sets or
\* algorithms, with the two sets given as the upstream and the downstream
\* affordances; an algorithm is asked for its next phase, with the first
\* of the sets given as the upstream affordances, and the entry phases that
\* _resolved_affordancesets_and_phases collects for that algorithm are
\* recorded; a phase is asked for its index, next_phase and prev_phase
Feasible(handler, trait) ==
    /\ outcome.op = "given"
    /\ outcome' =
            [op |-> trait, handler |-> handler, a |-> outcome.a,
             b |-> outcome.b,
             candidates |->
                IF trait = "next_phase"
                THEN {phase \in
                        {entry[2] : entry \in
                            _resolved_affordancesets_and_phases(outcome.a)} :
                        algorithm_of(phase) = handler}
                ELSE {},
             result |->
                CASE trait = "next_phase" ->
                        algorithm_next_phase(handler, outcome.a,
                                             MaxAffordances)
                  [] trait = "navigation" ->
                        [index |-> index(handler),
                         next_phase |-> next_phase(handler),
                         prev_phase |-> prev_phase(handler)]
                  [] trait = "realms" -> realms(handler, outcome.a, outcome.b)
                  [] trait = "algorithms" ->
                        algorithms(handler, outcome.a, outcome.b)
                  [] trait = "provisionsets" ->
                        provisionsets(handler, outcome.a, outcome.b)]
    /\ UNCHANGED service_state

\* a handler is asked whether it supports any of the realms, algorithms,
\* provision sets, inputs or outputs of the first of the sets given
SupportsAny(handler, trait) ==
    /\ outcome.op = "given"
    /\ outcome' =
            [op |-> "supports_any", trait |-> trait, handler |-> handler,
             a |-> outcome.a, b |-> outcome.b,
             result |->
                CASE trait = "realms" ->
                        supports_any_realm(handler, outcome.a.realms)
                  [] trait = "algorithms" ->
                        supports_any_algorithm(handler, outcome.a.algorithms)
                  [] trait = "provisionsets" ->
                        supports_any_provisions(handler,
                                                outcome.a.provisionsets)
                  [] trait = "inputs" ->
                        supports_any_input(handler, outcome.a.inputs)
                  [] trait = "outputs" ->
                        supports_any_output(handler, outcome.a.outputs)]
    /\ UNCHANGED service_state

\* _best_resolved_prospective_affordances_and_phase selects among the
\* entries of a resolution: one entry for each algorithm, of the phase the
\* algorithm is at and of the affordance sets resolved for it, which here
\* are any of the sets given, and of the one that requires client
\* authentication, whose provision sets are finite
Select(entries) ==
    /\ outcome.op = "given"
    /\ outcome' = [op |-> "select", a |-> outcome.a, b |-> outcome.b,
                   entries |-> entries,
                   result |->
                        _best_resolved_prospective_affordances_and_phase(
                            entries)]
    /\ UNCHANGED service_state

\* Every Space, phase and supplicant handles realms, every Space and phase
\* algorithms, every connector, phase and Space handles provision sets,
\* and every connector and phase handles tokens
\* ensure_auth goes on from a _process_phase that raised exc or, when exc
\* is None, returned an auth info with these tokens and this accepted, for
\* a process of the first of the sets given with this clerk
Complete(exc, tokens, accepted, clerk) ==
    /\ outcome.op = "given"
    /\ outcome' =
            [op |-> "complete", a |-> outcome.a, b |-> outcome.b,
             exc |-> exc,
             final |-> RequestAuthInfo(tokens, SECPROV_CLIENT_AUTH, accepted),
             result |->
                ensure_auth_completed(
                    Run(exc,
                        RequestAuthInfo(tokens, SECPROV_CLIENT_AUTH,
                                        accepted),
                        outcome.a, server_nonce_info, www_authenticate, 1),
                    RequestAuthInfo(EmptyTokens, {}, None),
                    [NothingChosen EXCEPT !.clerk = clerk],
                    auth_info, outcome.a)]
    /\ UNCHANGED service_state

AlgebraNext ==
    \/ \E operator \in {"and", "or"} : Combine(operator, outcome.b)
    \/ \E operator \in {"and", "or"} : Combine(operator, MaxAffordances)
    \/ \E handler \in RealmHandlers :
            Feasible(handler, "realms") \/ SupportsAny(handler, "realms")
    \/ \E handler \in AlgorithmHandlers :
            Feasible(handler, "algorithms")
            \/ SupportsAny(handler, "algorithms")
    \/ \E handler \in TokenHandlers \cup SpaceNames :
            Feasible(handler, "provisionsets")
            \/ SupportsAny(handler, "provisionsets")
    \/ \E handler \in TokenHandlers :
            SupportsAny(handler, "inputs") \/ SupportsAny(handler, "outputs")
    \/ \E algorithm \in Algorithms \cup SessionService.algorithms :
            Feasible(algorithm, "next_phase")
    \/ \E phase \in Phases : Feasible(phase, "navigation")
    \/ \E exc \in {None, "AuthTokensNotGiven", "KeyError"},
          names \in {{"user"}, {"user", "session_id"}},
          accepted \in {None, "True", "False"},
          clerk \in Clerks \cup SessionService.clerks :
            Complete(exc,
                     [name \in names |->
                        IF name = "user" THEN "alice" ELSE "sid1"],
                     accepted, clerk)
    \/ \E plain_at, digest_at \in 1..2 :
        \E plain_sets, digest_sets \in
                SUBSET {a \in {outcome.a, outcome.b, WithClientAuth} :
                            a.provisionsets.fin} :
            Select({<< plain_sets, phases("PlainAuth")[plain_at] >>,
                    << digest_sets, phases("DigestAuth")[digest_at] >>})

AlgebraSpec == AlgebraInit /\ [][AlgebraNext]_vars

\* ------------------------------------------------------------------------
\* Properties
\* ------------------------------------------------------------------------

\* the last operation was a call of ensure_auth
EnsureAuthEnded == outcome.op = "ensure_auth"

\* the exception classes of bedframe.auth._exc that derive from its Error
AuthErrorFamily ==
    {"Error", "BackendError", "InfiniteAffordances", "NoValidTokensScanned",
     "RequiredParamValueNotSupported", "RequiredParamValueSetNotSupported",
     "RequiredAlgorithmNotSupported", "RequiredProvisionSetNotSupported",
     "RequiredProvisionSetsNotSupported", "RequiredRealmNotSupported",
     "RequiredTokensNotSupported", "RequiredTokenSetsNotSupported",
     "RequiredInputNotSupported", "RequiredInputsNotSupported",
     "RequiredOutputNotSupported", "UnsatisfiableAffordances",
     "UnsuitableAgent", "UnsuitableClerk", "UnsuitableAuthenticator",
     "UnsuitableSupplicant", "UnsupportedTokens"}

\* bedframe.Unauthenticated and its subclasses
UnauthenticatedFamily == {"Unauthenticated"} \cup UnauthenticatedExceptions

\* the password the in-memory supplicant of example.net stores for the user
\* of the request's Authorization header is the one the header carries
CredentialsStored(supplicant) ==
    /\ current_request.authorization.user
            \in DOMAIN users_passwords(supplicant)
    /\ users_passwords(supplicant)[current_request.authorization.user]
            = current_request.authorization.password

\* C1: whenever ensure_auth returns normally, by the has_auth shortcut or
\* after a negotiation, the request's current auth info has accepted True.
C1_ReturnedMeansAccepted ==
    EnsureAuthEnded /\ outcome.result = "returned"
        => auth_info.accepted = "True"

\* ensure_auth returned after a negotiation that called process_tokens
C1_Witness ==
    /\ EnsureAuthEnded
    /\ outcome.result = "returned"
    /\ outcome.calls > 0
    /\ outcome.assigned

\* C2: every call of ensure_auth returns normally or raises an exception of
\* the Unauthenticated family or of the auth Error family, and no other.
C2_OnlyDocumentedExceptions ==
    EnsureAuthEnded
        => outcome.result
            \in {"returned"} \cup UnauthenticatedFamily \cup AuthErrorFamily

\* C3: has_auth(loc, realms, provisionsets, algorithms) is true only if the
\* current auth info is accepted and its realm, provisions and algorithm
\* are among those of the Space registered at loc and among the given
\* ones; it is false for a request with no accepted auth info.
C3_HasAuthMeetsSpaceAndOverrides ==
    \A call \in Calls :
        has_auth(call.loc, call.args, current_auth_info)
            => /\ auth_info.accepted = "True"
               /\ uset_in(auth_info.realm, call.args.realms)
               /\ uset_in(auth_info.provisions, call.args.provisionsets)
               /\ uset_in(auth_info.algorithm, call.args.algorithms)
               /\ (spaces_get(call.loc) # None)
                    => /\ uset_in(auth_info.realm,
                                  realms(spaces_get(call.loc),
                                         MaxAffordances, MaxAffordances))
                       /\ uset_in(auth_info.provisions,
                                  provisionsets(spaces_get(call.loc),
                                                MaxAffordances,
                                                MaxAffordances))
                       /\ uset_in(auth_info.algorithm,
                                  algorithms(spaces_get(call.loc),
                                             MaxAffordances,
                                             MaxAffordances))

\* C4: whenever ensure_auth(loc, realms, provisionsets, algorithms) returns
\* normally, the realm and the algorithm of the current auth info are among
\* the caller's and among those of the Space registered at loc, and the
\* clerk, scanner and supplicant used are registered for that Space.
C4_ReturnedWithinSpaceAndArguments ==
    EnsureAuthEnded /\ outcome.result = "returned"
        => /\ uset_in(auth_info.realm, outcome.args.realms)
           /\ uset_in(auth_info.algorithm, outcome.args.algorithms)
           /\ (spaces_get(outcome.loc) # None)
                => /\ uset_in(auth_info.realm,
                              realms(spaces_get(outcome.loc),
                                     MaxAffordances, MaxAffordances))
                   /\ uset_in(auth_info.algorithm,
                              algorithms(spaces_get(outcome.loc),
                                         MaxAffordances, MaxAffordances))
                   /\ (outcome.chosen # NothingChosen)
                        => /\ uset_in(outcome.chosen.clerk,
                                uset_and(space_def(spaces_get(outcome.loc))
                                            .clerks, Finite(Clerks)))
                           /\ uset_in(outcome.chosen.scanner,
                                uset_and(space_def(spaces_get(outcome.loc))
                                            .scanners, Finite(Scanners)))
                           /\ uset_in(outcome.chosen.supplicant,
                                uset_and(space_def(spaces_get(outcome.loc))
                                            .supplicants,
                                         Finite(Supplicants)))

\* C5: has_auth raises nothing and changes no state: it yields a truth
\* value and leaves the current request, its auth info, the nonce table
\* and the response as they were, with or without a current request.
C5_HasAuthIsPure ==
    [][outcome'.op = "has_auth"
        => /\ outcome'.result \in {"True", "False"}
           /\ UNCHANGED service_state]_vars

\* has_auth was called while no request was being handled
C5_Witness ==
    /\ outcome.op = "has_auth"
    /\ ~current_request.present
    /\ outcome.result = "False"

\* C6: if has_auth holds for the arguments ensure_auth is called with,
\* ensure_auth returns normally, calls process_tokens on nothing and does
\* not assign the current auth info.
C6_ShortcutIsNoOp ==
    EnsureAuthEnded /\ outcome.had_auth
        => /\ outcome.result = "returned"
           /\ outcome.calls = 0
           /\ ~outcome.assigned
           /\ outcome.chosen = NothingChosen

\* ensure_auth was called when has_auth held for its arguments
C6_Witness ==
    /\ EnsureAuthEnded
    /\ outcome.had_auth
    /\ outcome.result = "returned"
    /\ auth_info.accepted = "True"

\* C7: whenever the token processing completes with a final auth info whose
\* accepted is False, ensure_auth raises AuthTokensNotAccepted.
C7_RejectedRaisesNotAccepted ==
    EnsureAuthEnded /\ outcome.assigned /\ auth_info.accepted = "False"
        => outcome.result = "AuthTokensNotAccepted"

\* Basic credentials with a password that the supplicant does not store for
\* the user were processed to the end and rejected
C7_Witness ==
    /\ EnsureAuthEnded
    /\ outcome.loc = <<"a">>
    /\ current_request.authorization.scheme = "Basic"
    /\ ~CredentialsStored("InMemoryPlainSupplicant@example.net")
    /\ auth_info.accepted = "False"
    /\ outcome.result = "AuthTokensNotAccepted"

\* C8: at the location of the Space with realm example.net, provisions
\* SECPROV_CLIENT_AUTH and the Basic mechanism, ensure_auth for a request
\* without an Authorization header raises AuthTokensNotGiven, and the
\* WWW-Authenticate header is then exactly Basic realm="example.net".
C8_BasicChallenge ==
    (/\ EnsureAuthEnded
     /\ outcome.loc = <<"a">>
     /\ outcome.args = AnyAuth
     /\ current_request.authorization.scheme = "none")
        => (/\ outcome.result = "AuthTokensNotGiven"
            /\ www_authenticate = "Basic realm=\"example.net\"")

\* the Basic challenge was issued for a request without credentials
C8_Witness ==
    /\ EnsureAuthEnded
    /\ outcome.loc = <<"a">>
    /\ outcome.args = AnyAuth
    /\ current_request.authorization.scheme = "none"
    /\ outcome.result = "AuthTokensNotGiven"
    /\ outcome.chosen.clerk = "TornadoHttpBasicClerk"

\* C9: at the same location, ensure_auth for a request with Basic
\* credentials of which the in-memory supplicant stores exactly that
\* password for that user returns normally, with accepted True and the
\* realm of the Space in the current auth info.
C9_BasicAccepted ==
    (/\ EnsureAuthEnded
     /\ outcome.loc = <<"a">>
     /\ outcome.args = AnyAuth
     /\ current_request.authorization.scheme = "Basic"
     /\ CredentialsStored("InMemoryPlainSupplicant@example.net"))
        => (/\ outcome.result = "returned"
            /\ auth_info.accepted = "True"
            /\ auth_info.realm = "example.net")

\* stored Basic credentials were verified by the supplicant and accepted
C9_Witness ==
    /\ EnsureAuthEnded
    /\ outcome.loc = <<"a">>
    /\ outcome.args = AnyAuth
    /\ current_request.authorization.scheme = "Basic"
    /\ CredentialsStored("InMemoryPlainSupplicant@example.net")
    /\ outcome.chosen.supplicant = "InMemoryPlainSupplicant@example.net"
    /\ outcome.result = "returned"

\* the Digest challenge of the Space at /a/d with the given server nonce
DigestChallenge(server_nonce) ==
    "Digest realm=\"example.net\", domain=\"/a/d/%3F\", nonce=\""
    \o server_nonce \o "\", algorithm=\"MD5\", qop=\"auth\""

\* C10: with the Digest mechanism, ensure_auth for a request without
\* credentials raises AuthTokensNotGiven with a challenge whose server
\* nonce it has just registered in the nonce table; and a request that
\* answers a registered, not yet used nonce with the digest computed from
\* the stored password is accepted.
C10_DigestChallengeThenAccepted ==
    [][(/\ outcome'.op = "ensure_auth"
        /\ outcome'.loc = <<"a", "d">>
        /\ outcome'.args = AnyAuth)
        => /\ (/\ current_request.authorization.scheme = "none"
               /\ current_request.loc = <<"a", "d">>)
                => (/\ outcome'.result = "AuthTokensNotGiven"
                    /\ \E server_nonce \in DOMAIN server_nonce_info'
                                            \ DOMAIN server_nonce_info :
                        /\ www_authenticate' = DigestChallenge(server_nonce)
                        /\ server_nonce_info'[server_nonce].use_count = 0)
           /\ (/\ current_request.authorization.scheme = "Digest"
               /\ CredentialsStored(
                    "InMemoryGetPasswordSupplicant@example.net")
               /\ current_request.authorization.server_nonce
                    \in DOMAIN server_nonce_info
               /\ server_nonce_info[
                    current_request.authorization.server_nonce].use_count
                        = 0)
                => (/\ outcome'.result = "returned"
                    /\ auth_info'.accepted = "True"
                    /\ auth_info'.algorithm = "DigestAuth")]_vars

\* a request answered a registered nonce with the right digest and was
\* accepted, which counted one use of the nonce
C10_Witness ==
    /\ EnsureAuthEnded
    /\ outcome.loc = <<"a", "d">>
    /\ outcome.result = "returned"
    /\ outcome.calls > 0
    /\ current_request.authorization.scheme = "Digest"
    /\ auth_info.algorithm = "DigestAuth"
    /\ current_request.authorization.server_nonce
            \in DOMAIN server_nonce_info
    /\ server_nonce_info[
            current_request.authorization.server_nonce].use_count = 1

\* C11: at a Space whose provision sets hold SECPROV_SERVER_NONCE_PER_REQUEST,
\* ensure_auth for a Digest request that carries the right digest and a
\* server nonce the table counts one use of, with a nonce count that is not
\* below the table's, does not accept the request: the
\* auth info has accepted False and the token stale "true", the nonce is
\* removed from the table, and the challenge carries a newly registered
\* nonce.
C11_ReusedNonceIsStale ==
    [][(/\ outcome'.op = "ensure_auth"
        /\ outcome'.loc = <<"p">>
        /\ outcome'.args = AnyAuth
        /\ current_request.loc = <<"p">>
        /\ SECPROV_SERVER_NONCE_PER_REQUEST
                \in space_def(spaces_get(current_request.loc)).provisionsets.els
        /\ current_request.authorization.scheme = "Digest"
        /\ CredentialsStored("InMemoryGetPasswordSupplicant@example.net")
        /\ auth_info.accepted # "True"
        /\ current_request.authorization.server_nonce
                \in DOMAIN server_nonce_info
        /\ server_nonce_info[
                current_request.authorization.server_nonce].use_count = 1
        /\ current_request.authorization.nc >= 1)
        => /\ outcome'.result \in UnauthenticatedFamily
           /\ auth_info'.accepted = "False"
           /\ "stale" \in DOMAIN auth_info'.tokens
           /\ auth_info'.tokens["stale"] = "true"
           /\ current_request.authorization.server_nonce
                    \notin DOMAIN server_nonce_info'
           /\ \E server_nonce \in DOMAIN server_nonce_info'
                                    \ DOMAIN server_nonce_info :
                    auth_info'.tokens["server_nonce"] = server_nonce]_vars

\* the session info that the Memcache store holds for the session_id cookie
\* of the current request, None when the request has no such cookie or the
\* store holds nothing for it
StoredSession ==
    IF current_request.cookie \in DOMAIN memcache
    THEN memcache[current_request.cookie]
    ELSE [user |-> None, accepted |-> None]

\* C12: a login of the session service that ends accepted, its user and
\* password verified by the login supplicant, stores a session under a new
\* session id, for the user who logged in, and sets that id as the
\* session_id cookie and as the session_id token; and ensure_auth, at a
\* location of a Space, for a request that is not authenticated yet and
\* presents, as its cookie and with no user or password, a session id that
\* the store holds, returns with the request authenticated as the
\* session's user, and no password among its tokens.
C12_IssuedSessionIsRecalled ==
    [][/\ (/\ outcome'.op = "ensure_auth"
            /\ outcome'.chosen.algorithm = "SessionLoginAuth"
            /\ outcome'.chosen.supplicant
                    = "LdapSimpleWithMemcacheSessionStorageSupplicant"
            /\ outcome'.result = "returned")
            => /\ outcome'.set_cookie \in DOMAIN memcache' \ DOMAIN memcache
               /\ memcache'[outcome'.set_cookie]
                    = [user |-> current_request.webmethod_args["user"],
                       accepted |-> "True"]
               /\ auth_info'.tokens["session_id"] = outcome'.set_cookie
       /\ (/\ outcome'.op = "ensure_auth"
            /\ ~outcome'.had_auth
            /\ spaces_get(outcome'.loc) # None
            /\ current_request.webmethod_args = EmptyTokens
            /\ StoredSession.accepted = "True")
            => /\ outcome'.result = "returned"
               /\ outcome'.chosen.algorithm = "SessionRecallAuth"
               /\ auth_info'.accepted = "True"
               /\ auth_info'.tokens["user"] = StoredSession.user
               /\ auth_info'.tokens["session_id"] = current_request.cookie
               /\ "password" \notin DOMAIN auth_info'.tokens
               /\ has_auth(outcome'.loc, MaxAffordances,
                           [present |-> TRUE, info |-> auth_info'])
               /\ memcache' = memcache]_vars

\* C12 witness: a request presenting the session id of an earlier login has
\* been authenticated by recall
C12_Witness ==
    /\ outcome.op = "ensure_auth"
    /\ outcome.chosen.algorithm = "SessionRecallAuth"
    /\ outcome.result = "returned"
    /\ current_request.cookie \in SessionIds
    /\ current_request.webmethod_args = EmptyTokens
    /\ StoredSession = [user |-> "alice", accepted |-> "True"]
    /\ auth_info.accepted = "True"

\* C13: ensure_auth, at a location of a Space, for a request that is not
\* authenticated yet and presents a session_id cookie for which the store
\* holds no session ends with AuthTokensNotAccepted carrying a redirection
\* to the login URI, and leaves the request unauthenticated: accepted is
\* False and has_auth does not hold.
C13_UnknownSessionIsRejected ==
    [][(/\ outcome'.op = "ensure_auth"
        /\ ~outcome'.had_auth
        /\ spaces_get(outcome'.loc) # None
        /\ current_request.webmethod_args = EmptyTokens
        /\ current_request.cookie # None
        /\ StoredSession.accepted = None)
        => /\ outcome'.result = "AuthTokensNotAccepted"
           /\ outcome'.redirection = SessionService.login_uri
           /\ outcome'.chosen.algorithm = "SessionRecallAuth"
           /\ auth_info'.accepted = "False"
           /\ ~has_auth(outcome'.loc, MaxAffordances,
                        [present |-> TRUE, info |-> auth_info'])
           /\ memcache' = memcache]_vars

\* C13 witness: requests presenting an id that was never issued, and an id
\* whose session was deleted, have been rejected
C13_Witness ==
    /\ outcome.op = "ensure_auth"
    /\ outcome.result = "AuthTokensNotAccepted"
    /\ outcome.redirection = SessionService.login_uri
    /\ current_request.cookie = "sid1"
    /\ "sid1" \in DOMAIN memcache
    /\ StoredSession.accepted = None
    /\ auth_info.accepted = "False"

\* C14: when a processing step of ensure_auth raises an Unauthenticated
\* exception (the clerk's process_tokens raises AuthTokensNotGiven),
\* ensure_auth ends with that exception, and the request's current auth
\* info is then the auth info of the negotiation: the tokens that the
\* scanners recognized, with the Space, realm, algorithm, clerk, scanner and
\* supplicant chosen, and nothing verified.
C14_UnauthenticatedRecordsAuthInfo ==
    [][(/\ outcome'.op = "ensure_auth"
        /\ outcome'.result = "AuthTokensNotGiven")
        => /\ outcome'.assigned
           /\ outcome'.chosen.clerk \in Clerks
           /\ \E scanned \in
                    scanned_auth_info(
                        resolution_affordances(outcome'.loc, outcome'.args)
                            .scanners.els,
                        current_request) :
                auth_info'
                = [scanned.info
                    EXCEPT !.space = spaces_get(outcome'.loc),
                           !.realm = outcome'.chosen.realm,
                           !.algorithm = outcome'.chosen.algorithm,
                           !.clerk = outcome'.chosen.clerk,
                           !.scanner = outcome'.chosen.scanner,
                           !.supplicant = outcome'.chosen.supplicant]]_vars

\* C14 witness: a request that carries credentials for another scheme has
\* been challenged, and its auth info holds the tokens scanned from it
C14_Witness ==
    /\ outcome.op = "ensure_auth"
    /\ outcome.result = "AuthTokensNotGiven"
    /\ outcome.assigned
    /\ auth_info.clerk \in Clerks
    /\ auth_info.accepted = None
    /\ DOMAIN auth_info.tokens # {}

\* C15: while the session service, whose one Space allows SessionLoginAuth
\* and SessionRecallAuth, handles a request that carries no login
\* arguments and no cookie and is not authenticated, every way in which a
\* call of ensure_auth can end, over the orders in which the candidate sets
\* can be iterated, chooses the same realm, algorithm, clerk, scanner and
\* supplicant and gives the same challenge.
C15_SelectionIsDeterministic ==
    (/\ current_request.present
     /\ current_request.webmethod_args = EmptyTokens
     /\ current_request.cookie = None
     /\ auth_info = RequestAuthInfo(EmptyTokens, {}, None))
    => \A loc \in SessionService.locs :
        \A ended, other \in ensure_auth(loc, MaxAffordances,
                                current_request, auth_info, memcache,
                                www_authenticate) :
            /\ ended.chosen = other.chosen
            /\ ended.result = other.result
            /\ ended.redirection = other.redirection
            /\ ended.www_authenticate = other.www_authenticate

\* C16: when ensure_auth negotiates and the caller's affordances combined
\* with those of the Space at loc are empty in realms, provisionsets or
\* algorithms, it raises UnsatisfiableAffordances, and it has called no
\* process_tokens and chosen no connector by then.
C16_EmptyGivenAffordancesAreUnsatisfiable ==
    (/\ EnsureAuthEnded
     /\ ~outcome.had_auth
     /\ empty_components(given_affordances(outcome.loc, outcome.args),
                         GeneralComponents) # {})
    => /\ outcome.result = "UnsatisfiableAffordances"
       /\ outcome.calls = 0
       /\ outcome.chosen = NothingChosen

\* C17: when ensure_auth negotiates, the given affordances are not empty
\* and no algorithm, no clerk, no scanner or no supplicant among the
\* registered ones supports them, ensure_auth raises the auth Error, no
\* process_tokens has been called by then, and the current auth info is
\* what it was.
C17_NoConnectorIsAnError ==
    [][(/\ outcome'.op = "ensure_auth"
        /\ ~outcome'.had_auth
        /\ empty_components(given_affordances(outcome'.loc, outcome'.args),
                            GeneralComponents) = {}
        /\ \E kind \in ConnectorKinds :
                ~nonempty(resolution_affordances(outcome'.loc,
                                                 outcome'.args)[kind]))
        => /\ outcome'.result = "Error"
           /\ outcome'.result \notin UnauthenticatedFamily
           /\ outcome'.calls = 0
           /\ ~outcome'.assigned
           /\ auth_info' = auth_info
           /\ www_authenticate' = www_authenticate
           /\ server_nonce_info' = server_nonce_info]_vars

\* C17 witness: ensure_auth at the Space whose realm no supplicant serves
\* has raised Error for a request that carries credentials
C17_Witness ==
    /\ EnsureAuthEnded
    /\ outcome.loc = <<"u">>
    /\ outcome.result = "Error"
    /\ outcome.calls = 0
    /\ current_request.authorization.scheme = "Basic"
    /\ ~nonempty(resolution_affordances(outcome.loc, outcome.args).supplicants)

\* C18: realms, provisionsets and algorithms of A & B are each the
\* intersection of that field of A and of B, and every field of A | B is
\* the union of that field of A and of B.
C18_AndIntersectsOrUnites ==
    /\ outcome.op = "and" =>
            \A name \in GeneralComponents :
                outcome.result[name]
                    = uset_and(outcome.a[name], outcome.b[name])
    /\ outcome.op = "or" =>
            \A name \in DOMAIN MaxAffordances :
                outcome.result[name]
                    = IF outcome.a[name].fin /\ outcome.b[name].fin
                      THEN Finite(outcome.a[name].els
                                  \cup outcome.b[name].els)
                      ELSE Universal

\* C19: when A & B has been computed and is intersected with B again, the
\* result equals A & B.
C19_AndIsIdempotent ==
    [][(/\ outcome.op = "and"
        /\ outcome'.op = "and"
        /\ outcome'.b = outcome.b)
        => outcome'.result = outcome.result]_vars

\* C20: A & max() equals A, for a general, a process and a prospective
\* affordance set A.
C20_MaxIsIdentityOfAnd ==
    (outcome.op = "and" /\ outcome.b = MaxAffordances)
        => outcome.result = outcome.a

\* C21: ensure_auth picks a realm, an algorithm, a clerk, a scanner and a
\* supplicant only from a selected affordance set whose components other
\* than outputs are all finite and non-empty, and each one picked is a
\* member of its component; and when a component other than outputs of the
\* selected affordance set is universal, ensure_auth raises
\* InfiniteAffordances naming exactly the universal components, and picks
\* nothing.
C21_PicksFromFiniteAffordances ==
    (EnsureAuthEnded /\ ~outcome.had_auth)
    => \E scanned \in
            scanned_auth_info(
                resolution_affordances(outcome.loc, outcome.args)
                    .scanners.els, current_request) :
        LET selected ==
                {_update_afforded_tokens_from_auth_info(
                    best[1], DOMAIN scanned.info.tokens) :
                 best \in resolved_bests[outcome.loc, outcome.args,
                                         scanned.outputs]}
            picked == ProspectiveComponents \ {"outputs"}
        IN /\ outcome.chosen # NothingChosen
                => \E a \in selected :
                    /\ \A name \in picked :
                            a[name].fin /\ a[name].els # {}
                    /\ outcome.chosen.realm \in a.realms.els
                    /\ outcome.chosen.algorithm \in a.algorithms.els
                    /\ outcome.chosen.clerk \in a.clerks.els
                    /\ outcome.chosen.scanner \in a.scanners.els
                    /\ outcome.chosen.supplicant \in a.supplicants.els
           /\ (\A a \in selected :
                    /\ \A name \in ProspectiveComponents :
                            nonempty(a[name])
                    /\ \E name \in picked : ~a[name].fin)
                => /\ selected # {} => outcome.result = "InfiniteAffordances"
                   /\ outcome.chosen = NothingChosen
                   /\ ~outcome.assigned
           /\ outcome.result = "InfiniteAffordances"
                => \E a \in selected :
                    /\ outcome.infinite_components
                            = {name \in picked : ~a[name].fin}
                    /\ outcome.infinite_components # {}

\* C21 witness: ensure_auth at a location outside every Space, where the
\* realms selected are universal, has raised InfiniteAffordances
C21_Witness ==
    /\ EnsureAuthEnded
    /\ outcome.result = "InfiniteAffordances"
    /\ outcome.infinite_components = {"realms"}
    /\ spaces_get(outcome.loc) = None
    /\ outcome.chosen = NothingChosen
    /\ current_request.cookie \in SessionIds

\* C22 as stated: the realms, the provision sets and the algorithms that a
\* handler returns for upstream and downstream affordances are each the
\* intersection of what the handler declares with the upstream and the
\* downstream values, and so a subset of each of the three.
C22_FeasibleIsIntersection ==
    outcome.op \in GeneralComponents
    => \E declared \in
            {CASE outcome.op = "realms" ->
                    _realms(outcome.handler, outcome.a, outcome.b)
               [] outcome.op = "algorithms" ->
                    _algorithms(outcome.handler, outcome.a, outcome.b)
               [] outcome.op = "provisionsets" ->
                    _provisionsets(outcome.handler, outcome.a, outcome.b)} :
        /\ outcome.result
            = uset_and(uset_and(declared, outcome.a[outcome.op]),
                       outcome.b[outcome.op])
        /\ outcome.result.fin =>
                \A x \in outcome.result.els :
                    /\ uset_in(x, declared)
                    /\ uset_in(x, outcome.a[outcome.op])
                    /\ uset_in(x, outcome.b[outcome.op])

\* C22 amended: the realms and the algorithms that a handler returns are
\* the intersection of what it declares with the upstream and the
\* downstream values.  The provision sets that it returns are those of its
\* declared provision sets that are contained in some upstream provision
\* set and in some downstream provision set: a subset of the declared
\* ones, whose members need not be members of the upstream or the
\* downstream provision sets.
C22_FeasibleValues ==
    /\ outcome.op \in {"realms", "algorithms"}
        => \E declared \in
                {IF outcome.op = "realms"
                 THEN _realms(outcome.handler, outcome.a, outcome.b)
                 ELSE _algorithms(outcome.handler, outcome.a, outcome.b)} :
            /\ outcome.result.fin
                = (declared.fin \/ outcome.a[outcome.op].fin
                   \/ outcome.b[outcome.op].fin)
            /\ \A x \in {"example.net", "other.org", "nowhere.org"}
                        \cup Algorithms \cup SessionService.algorithms :
                    uset_in(x, outcome.result)
                    = (/\ uset_in(x, declared)
                       /\ uset_in(x, outcome.a[outcome.op])
                       /\ uset_in(x, outcome.b[outcome.op]))
    /\ outcome.op = "provisionsets"
        => /\ outcome.result.fin
           /\ outcome.result.els =
                {p \in _provisionsets(outcome.handler, outcome.a,
                                      outcome.b).els :
                    /\ \/ ~outcome.a.provisionsets.fin
                       \/ \E u \in outcome.a.provisionsets.els : p \subseteq u
                    /\ \/ ~outcome.b.provisionsets.fin
                       \/ \E d \in outcome.b.provisionsets.els :
                            p \subseteq d}

\* C22 witness: a handler has returned a provision set that is contained
\* in an upstream provision set without being one of them
C22_Witness ==
    /\ outcome.op = "provisionsets"
    /\ outcome.a.provisionsets.fin
    /\ \E p \in outcome.result.els :
            /\ p \notin outcome.a.provisionsets.els
            /\ \E u \in outcome.a.provisionsets.els : p \subseteq u

\* C23: supports_any_realm, supports_any_algorithm,
\* supports_any_provisions, supports_any_input and supports_any_output
\* return True for a universal candidate set, and for a finite candidate
\* set return True exactly when the handler supports at least one of its
\* members, so False for the empty set.
C23_SupportsAny ==
    outcome.op = "supports_any"
    => \E given \in {outcome.a[outcome.trait]} :
        /\ ~given.fin => outcome.result = TRUE
        /\ given = Finite({}) => outcome.result = FALSE
        /\ given.fin
            => outcome.result
               = \E member \in given.els :
                    CASE outcome.trait = "realms" ->
                            uset_in(member,
                                realms(outcome.handler, MaxAffordances,
                                       MaxAffordances))
                      [] outcome.trait = "algorithms" ->
                            uset_in(member,
                                algorithms(outcome.handler, MaxAffordances,
                                           MaxAffordances))
                      [] outcome.trait = "provisionsets" ->
                            any_gte(provisionsets(outcome.handler,
                                        MaxAffordances, MaxAffordances),
                                    member)
                      [] outcome.trait = "inputs" ->
                            supports_input(outcome.handler, member,
                                           MaxAffordances, MaxAffordances)
                      [] outcome.trait = "outputs" ->
                            supports_output(outcome.handler, member,
                                            MaxAffordances, MaxAffordances)

\* C23 witness: a supplicant of realm example.net has been asked about
\* example.net and other.org, of which it supports the first only, and has
\* answered True
C23_Witness ==
    /\ outcome.op = "supports_any"
    /\ outcome.trait = "realms"
    /\ outcome.handler \in Supplicants
    /\ outcome.a.realms = Finite({"example.net", "other.org"})
    /\ ~uset_in("other.org",
                realms(outcome.handler, MaxAffordances, MaxAffordances))
    /\ outcome.result = TRUE

\* C24: as requests come and go and ensure_auth is called, what a
\* capability method returns for the same upstream and downstream
\* affordances stays the same: here the realms that the session login
\* scanner returns for the universal affordances.
C24_CapabilitiesReadArgumentsOnly ==
    [][LET before == TornadoSessionLoginScanner_realms(
                          MaxAffordances, MaxAffordances, current_request)
           after == TornadoSessionLoginScanner_realms(
                        MaxAffordances, MaxAffordances, current_request')
       IN  /\ after.exc = before.exc
           /\ before.exc = None => after.realms = before.realms]_vars

\* C25: when the recall supplicant meets stored session info that it cannot
\* load, ensure_auth ends with the BackendError that the supplicant raised.
C25_BackendFailureIsBackendError ==
    [][(/\ outcome'.op = "ensure_auth"
        /\ outcome'.chosen.supplicant = "MemcacheSessionRecallSupplicant"
        /\ ~outcome'.had_auth
        /\ StoredSession.accepted = "unloadable")
        => outcome'.result = "BackendError"]_vars

\* C26: every server nonce that is entered in the nonce table of DigestAuth
\* is removed from it later, as the service goes on serving requests and
\* the nonce grows older than the nonce lifespan.
C26_NoncesAreForgotten ==
    \A nonce \in {NonceSeq(MaxNonces)[i] : i \in 1..MaxNonces} :
        (nonce \in DOMAIN server_nonce_info)
            ~> (nonce \notin DOMAIN server_nonce_info)

C28_UnsetFieldsAreKept ==
    \A i \in 1..Len(outcome.threaded) :
        \A field \in {"realm", "algorithm", "provisions"} :
            outcome.threaded[i].returned[field]
                    = RequestAuthInfo(EmptyTokens, {}, None)[field]
                => outcome.threaded[i].kept[field]
                    = outcome.threaded[i].given[field]

\* C29: the affordance set and phase selected are one of the combinations
\* of the resolution; of all the combinations whose affordance set has a
\* provision set to score, none has a phase of a greater index, and none
\* with a phase of the same index has a greater _affordances_score.
C29_SelectsFurthestThenBestScore ==
    outcome.op = "select"
    => \A selected \in outcome.result :
        /\ \E entry \in outcome.entries :
                selected[2] = entry[2] /\ selected[1] \in entry[1]
        /\ \A entry \in outcome.entries :
                \A affordances_ \in entry[1] :
                    _affordances_score(affordances_) > -1
                    => /\ index(entry[2]) <= index(selected[2])
                       /\ index(entry[2]) = index(selected[2])
                            => _affordances_score(affordances_)
                                <= _affordances_score(selected[1])

\* C29 witness: a selection was made over a combination of the same phase
\* index and a lower score, and over one of a lower phase index and a
\* higher score
C29_Witness ==
    /\ outcome.op = "select"
    /\ \E selected \in outcome.result :
        \E rival, behind \in outcome.entries :
            /\ rival[2] = selected[2]
            /\ \E affordances_ \in rival[1] :
                    /\ _affordances_score(affordances_) > -1
                    /\ _affordances_score(affordances_)
                            < _affordances_score(selected[1])
            /\ index(behind[2]) < index(selected[2])
            /\ \E affordances_ \in behind[1] :
                    _affordances_score(affordances_)
                        > _affordances_score(selected[1])

\* C30: when the resolution yields, for some candidate phase, an affordance
\* set with a provision set to score, a combination is selected, whatever
\* the entries of the other phases hold.
C30_FeasibleIsSelected ==
    (/\ outcome.op = "select"
     /\ \E entry \in outcome.entries :
            \E affordances_ \in entry[1] :
                _affordances_score(affordances_) > -1)
    => outcome.result # {}

\* C31: Algorithm.next_phase returns the phase of the highest index among
\* the phases whose supports_affordances holds for the affordances given,
\* and nothing when no phase supports them; an algorithm for which it
\* returns nothing contributes no candidate entry, and any other algorithm
\* among those of the affordances contributes exactly the entry of that
\* phase.
C31_NextPhaseIsLastSupporting ==
    outcome.op = "next_phase" =>
        LET supporting ==
                {i \in 1..Len(phases(outcome.handler)) :
                    supports_affordances(phases(outcome.handler)[i],
                                         outcome.a, MaxAffordances)}
        IN IF supporting = {}
           THEN outcome.result = None /\ outcome.candidates = {}
           ELSE /\ \E i \in supporting :
                    /\ outcome.result = phases(outcome.handler)[i]
                    /\ \A j \in supporting : j <= i
                /\ outcome.candidates =
                        IF outcome.handler \in outcome.a.algorithms.els
                        THEN {outcome.result} ELSE {}

\* an earlier phase supports the affordances too, the last one is returned
\* and it is the one candidate of the algorithm
C31_Witness ==
    /\ outcome.op = "next_phase"
    /\ outcome.handler = "DigestAuth"
    /\ outcome.result = phases("DigestAuth")[3]
    /\ supports_affordances(phases("DigestAuth")[1], outcome.a,
                            MaxAffordances)
    /\ outcome.candidates = {phases("DigestAuth")[3]}

\* C32: when ensure_auth negotiates and some scanner raises
\* NoValidTokensScanned, ensure_auth does not end with that exception and
\* every scanner has been asked; and when every scanner raised it and the
\* resolution chose connectors, the scanner chosen is one of those
\* scanners, and, when loc and the request's location are locations of a
\* Space, ensure_auth ends with AuthTokensNotGiven and a challenge in the
\* WWW-Authenticate header.
C32_SilentScannersStayCandidates ==
    (EnsureAuthEnded /\ ~outcome.had_auth /\ outcome.calls > 0)
    => LET scanners_ ==
                resolution_affordances(outcome.loc, outcome.args)
                    .scanners.els
           silent ==
                {scanner \in scanners_ :
                    scanner_process_tokens(scanner, current_request).exc
                        = "NoValidTokensScanned"}
       IN silent # {}
            => /\ outcome.result # "NoValidTokensScanned"
               /\ outcome.calls >= Cardinality(scanners_)
               /\ (silent = scanners_ /\ outcome.chosen # NothingChosen)
                    => /\ outcome.chosen.scanner \in silent
                       /\ (/\ spaces_get(outcome.loc) # None
                           /\ spaces_get(current_request.loc) # None)
                            => /\ outcome.result = "AuthTokensNotGiven"
                               /\ www_authenticate # None

\* C32 witness: a request without credentials, for which both scanners
\* raise NoValidTokensScanned, has been challenged
C32_Witness ==
    /\ EnsureAuthEnded
    /\ ~outcome.had_auth
    /\ current_request.authorization = NoAuthorization
    /\ Cardinality(resolution_affordances(outcome.loc, outcome.args)
                        .scanners.els) = 2
    /\ outcome.chosen.scanner \in Scanners
    /\ outcome.result = "AuthTokensNotGiven"
    /\ www_authenticate # None

\* C33: the tokens that ensure_auth feeds into the phases are the tokens
\* that the scanner chosen for the negotiation recognized in the request,
\* and none when that scanner recognized none: tokens that only another
\* scanner recognized are never the input of the phases.
C33_FedTokensAreOfChosenScanner ==
    (EnsureAuthEnded /\ outcome.steps # << >>)
    => outcome.fed
        = IF scanner_process_tokens(outcome.chosen.scanner,
                                    current_request).exc = None
          THEN scanner_process_tokens(outcome.chosen.scanner,
                                      current_request).info.tokens
          ELSE EmptyTokens

\* C34: when the phases end without raising and leave an auth info that
\* is not verified, ensure_auth raises Error and calls no confirm_auth_info;
\* when they leave a verified one, ensure_auth calls the clerk's
\* confirm_auth_info exactly once, with that auth info, which is by then
\* the current auth info of the request.
C34_UnverifiedIsErrorVerifiedIsConfirmed ==
    (outcome.op = "complete" /\ outcome.exc = None)
    => IF outcome.final.accepted = None
       THEN /\ outcome.result.result = "Error"
            /\ outcome.result.confirmations = << >>
       ELSE /\ outcome.result.confirmations
                    = << [info |-> outcome.final, current |-> outcome.final] >>
            /\ outcome.result.assigned
            /\ outcome.result.auth_info = outcome.final

\* C34 witness: the phases left an auth info that is verified and not
\* accepted, and the Basic clerk has confirmed it once, with a challenge
C34_Witness ==
    /\ outcome.op = "complete"
    /\ outcome.exc = None
    /\ outcome.final.accepted = "False"
    /\ outcome.result.chosen.clerk = "TornadoHttpBasicClerk"
    /\ Len(outcome.result.confirmations) = 1
    /\ outcome.result.result = "AuthTokensNotAccepted"
    /\ outcome.result.www_authenticate # None

\* C35: whenever ensure_auth has raised an exception of the
\* Unauthenticated family, the current auth info of the request is not an
\* accepted one and has_auth does not hold for the arguments of the call,
\* whether or not the request was authenticated before the call.
C35_UnauthenticatedLeavesUnauthenticated ==
    (EnsureAuthEnded /\ outcome.result \in UnauthenticatedFamily)
    => /\ auth_info.accepted # "True"
       /\ ~has_auth(outcome.loc, outcome.args, current_auth_info)

\* C35 witness: a request that was authenticated has met an Unauthenticated
\* exception of an ensure_auth for other constraints
C35_Witness ==
    /\ EnsureAuthEnded
    /\ outcome.result \in UnauthenticatedFamily
    /\ outcome.accepted_before
    /\ ~outcome.had_auth
    /\ auth_info.accepted # "True"

\* C36: every phase of a shipped algorithm whose output goes to the
\* supplicant has a next phase; and the phases that ensure_auth runs are
\* never a missing phase, make at most three steps, raise at the last step
\* if at all, and, when no step raised, end at the last phase of the
\* algorithm, the one whose output target is 'end'; a run in which a step
\* raised ends at the clerk, which raises AuthTokensNotGiven, or with an
\* exception of the connector that raised.
C36_PhasesEndAtEndOrClerk ==
    /\ \A phase \in Phases :
            output_target(phase) = "supplicant" => next_phase(phase) # None
    /\ (EnsureAuthEnded /\ outcome.steps # << >>)
        => /\ \A i \in 1..Len(outcome.steps) : outcome.steps[i] # None
           /\ Len(outcome.steps) <= 3
           /\ Len(outcome.threaded) >= Len(outcome.steps) - 1
           /\ IF Len(outcome.threaded) = Len(outcome.steps)
              THEN outcome.steps[Len(outcome.steps)]
                    \in {"PlainAuth.VerifyBackendResponse",
                         "DigestAuth.VerifyBackendResponse",
                         "SessionLoginAuth.SendSessionId",
                         "SessionRecallAuth.VerifySessionInfo"}
              ELSE \/ outcome.steps[Len(outcome.steps)]
                        \in Clerks \cup SessionService.clerks
                   \/ outcome.result
                        \notin {"returned", "AuthTokensNotGiven",
                                "AuthTokensNotAccepted", "Error"}

\* C36 witness: PlainAuth was entered at its second phase and went through
\* the supplicant to its last phase
C36_Witness ==
    /\ EnsureAuthEnded
    /\ Len(outcome.steps) = 3
    /\ Len(outcome.threaded) = 3
    /\ outcome.steps[1] = "PlainAuth.VerifyCredsWithBackend"
    /\ outcome.steps[2] \in Supplicants
    /\ outcome.steps[3] = "PlainAuth.VerifyBackendResponse"

\* C37: for the phase at position i, counted from 0, of the n phases of
\* its algorithm, index is i, next_phase is the phase at position i + 1, or
\* nothing when i = n - 1, and prev_phase is the phase at position i - 1, or
\* nothing when i = 0.
C37_PhaseNavigation ==
    outcome.op = "navigation"
    => \E algorithm \in Algorithms \cup SessionService.algorithms :
        \E at \in 1..Len(phases(algorithm)) :
            /\ phases(algorithm)[at] = outcome.handler
            /\ outcome.result.index = at - 1
            /\ outcome.result.next_phase
                    = IF at = Len(phases(algorithm)) THEN None
                      ELSE phases(algorithm)[at + 1]
            /\ outcome.result.prev_phase
                    = IF at = 1 THEN None ELSE phases(algorithm)[at - 1]

C39_UsedCountIsNotAcceptedAgain ==
    [][(/\ outcome'.op = "ensure_auth"
        /\ \E at \in 1..Len(outcome'.steps) :
                outcome'.steps[at] = "DigestAuth.VerifyBackendResponse"
        /\ \E earlier \in outcome.used :
                /\ earlier[1] = current_request'.authorization.server_nonce
                /\ current_request'.authorization.nc <= earlier[2])
        => /\ outcome'.result # "returned"
           /\ auth_info'.accepted # "True"]_vars

====
